---- MODULE Spec2Model ----
(***************************************************************************)
(* InteractiveBook: document ingestion and retrieval-augmented generation. *)
(*                                                                         *)
(* The model follows src/src/services (EmbeddingService, VectorDBService,  *)
(* LLMService, RAGService), src/src/models (ProjectModel, ChunkModel) and  *)
(* src/src/routes/data_router.py (process_endpoint).                       *)
(*                                                                         *)
(* Conventions                                                             *)
(*  - a text is a sequence of one-character strings;                       *)
(*  - a Python None / empty list that the code only tests for truthiness   *)
(*    is the empty sequence <<>>; an optional value is <<>> (None) or     *)
(*    <<v>>;                                                               *)
(*  - floats are fixed point: the number 1.0 is One, vector components are *)
(*    multiples of 1/UnitLen and distances multiples of 1/One;             *)
(*  - a dict is a function whose domain is the set of its keys.            *)
(***************************************************************************)
EXTENDS Integers, Sequences, FiniteSets, TLC

(***************************************************************************)
(* Bounds of the model                                                     *)
(***************************************************************************)
\* Settings.EMBEDDING_DIMENSION as configured for the model runs
EMBEDDING_DIMENSION == 2
\* number of process requests in one behaviour
MaxIngest == 2
\* number of chat calls in one behaviour
MaxChat == 1
\* number of direct calls of the Vector Index in one behaviour
MaxIndexOps == 2
\* number of direct calls of the Chunk Store in one behaviour
MaxSaves == 2
\* requests in flight at the same time
MaxRequests == 2

(***************************************************************************)
(* Program constants                                                       *)
(***************************************************************************)
\* the float 1.0 in fixed point (UnitLen squared)
One == 25
\* length of a normalised vector, in vector component units
UnitLen == 5
\* length of the excerpt kept in a citation
ExcerptLen == 200
\* Settings.RAG_CONTEXT_CHUNKS
RAG_CONTEXT_CHUNKS == 5
\* Settings.EMBEDDING_BATCH_SIZE
EMBEDDING_BATCH_SIZE == 32
\* Settings.CHROMADB_COLLECTION_PREFIX
CHROMADB_COLLECTION_PREFIX == "project_"

Projects == {"p1", "p2"}
Files == {"f1", "f2"}

(***************************************************************************)
(* Texts                                                                   *)
(***************************************************************************)
Space == " "

RECURSIVE LStrip(_)
LStrip(t) == IF t # <<>> /\ Head(t) = Space THEN LStrip(Tail(t)) ELSE t

RECURSIVE RStrip(_)
RStrip(t) ==
    IF t # <<>> /\ t[Len(t)] = Space THEN RStrip(SubSeq(t, 1, Len(t) - 1)) ELSE t

\* str.strip()
Strip(t) == RStrip(LStrip(t))

\* IsBlank without the whitespace test
IsBlank_EmptyOnly(t) == t = <<>>

\* "not text or not text.strip()"
IsBlank(t) == t = <<>> \/ Strip(t) = <<>>

TextCat == <<"c", "a", "t">>
TextDog == <<"d", "o", "g">>
TextOwl == <<"o", "w", "l">>
TextSpaces == <<" ", " ">>
\* a text of exactly ExcerptLen characters and one of ExcerptLen + 1
TextFull == [i \in 1..ExcerptLen |-> IF i % 2 = 1 THEN "e" ELSE "l"]
TextLong == [i \in 1..(ExcerptLen + 1) |-> IF i % 3 = 1 THEN "b" ELSE "i"]

(***************************************************************************)
(* Embedding Provider (EmbeddingService)                                   *)
(***************************************************************************)
\* a vector of the configured dimension from its first two components
Pad(x, y) == [i \in 1..EMBEDDING_DIMENSION |-> IF i = 1 THEN x ELSE IF i = 2 THEN y ELSE 0]

\* the unit vectors the model produces (normalize_embeddings=True)
Directions == << Pad(UnitLen, 0), Pad(4, 3), Pad(3, 4), Pad(0, UnitLen) >>

\* SentenceTransformer.encode: deterministic in the text, unit length; the
\* model separates texts by their first character
Encode(t) ==
    CASE t[1] = "c" -> Directions[1]
      [] t[1] = "b" -> Directions[2]
      [] t[1] = "d" -> Directions[3]
      [] OTHER      -> Directions[4]

ZeroVector == [i \in 1..EMBEDDING_DIMENSION |-> 0]

\* EmbeddingService.generate_embedding; modelFails is the outcome of
\* model.encode
generate_embedding(text, modelFails) ==
    IF text = <<>> THEN [raised |-> "ValueError", vector |-> <<>>]
    ELSE IF Strip(text) = <<>> THEN [raised |-> "none", vector |-> ZeroVector]
    ELSE IF modelFails THEN [raised |-> "RuntimeError", vector |-> <<>>]
    ELSE [raised |-> "none", vector |-> Encode(text)]

Min(a, b) == IF a <= b THEN a ELSE b
Max(a, b) == IF a >= b THEN a ELSE b

\* a batch loop that encodes full batches only
RECURSIVE EncodeBatches_FullBatchesOnly(_, _, _)
EncodeBatches_FullBatchesOnly(valid_texts, i, batch_size) ==
    IF i + batch_size - 1 > Len(valid_texts) THEN <<>>
    ELSE LET batch == SubSeq(valid_texts, i, i + batch_size - 1)
         IN  [k \in 1..Len(batch) |-> Encode(batch[k])]
               \o EncodeBatches_FullBatchesOnly(valid_texts, i + batch_size, batch_size)

\* the loop "for i in range(0, len(valid_texts), batch_size)"
RECURSIVE EncodeBatches(_, _, _)
EncodeBatches(valid_texts, i, batch_size) ==
    IF i > Len(valid_texts) THEN <<>>
    ELSE LET batch == SubSeq(valid_texts, i, Min(i + batch_size - 1, Len(valid_texts)))
         IN  [k \in 1..Len(batch) |-> Encode(batch[k])]
               \o EncodeBatches(valid_texts, i + batch_size, batch_size)

\* EmbeddingService.generate_embeddings_batch; batch_size is
\* self.settings.EMBEDDING_BATCH_SIZE and modelFails the outcome of
\* model.encode
generate_embeddings_batch(texts, batch_size, modelFails) ==
    LET valid_texts == SelectSeq(texts, LAMBDA t : ~IsBlank(t)) IN
    IF texts = <<>> \/ valid_texts = <<>> THEN [raised |-> "none", vectors |-> <<>>]
    ELSE IF modelFails THEN [raised |-> "RuntimeError", vectors |-> <<>>]
    ELSE [raised |-> "none", vectors |-> EncodeBatches(valid_texts, 1, batch_size)]

(***************************************************************************)
(* Vector Index (VectorDBService over a ChromaDB client)                   *)
(*                                                                         *)
(* The index is a function from collection names to the sequence of the    *)
(* collection's entries in insertion order.                                *)
(***************************************************************************)
EmptyMap == [k \in {} |-> 0]

\* dict.update
DictUpdate(a, b) ==
    [k \in DOMAIN a \cup DOMAIN b |-> IF k \in DOMAIN b THEN b[k] ELSE a[k]]

\* a collection name that does not depend on the project
CollectionName_Shared(project_id) == CHROMADB_COLLECTION_PREFIX

CollectionName(project_id) == CHROMADB_COLLECTION_PREFIX \o project_id

\* VectorDBService.get_or_create_collection
get_or_create_collection(index, project_id) ==
    LET name == CollectionName(project_id) IN
    IF name \in DOMAIN index THEN index
    ELSE [n \in DOMAIN index \cup {name} |-> IF n = name THEN <<>> ELSE index[n]]

ChunkId(file_id, idx) == "chunk_" \o file_id \o "_" \o ToString(idx)

EntryIds(entries) == {entries[i].id : i \in 1..Len(entries)}

\* chromadb Collection.add: a record whose id is already in the collection
\* is ignored, the others are appended
CollectionAdd(entries, new) ==
    entries \o SelectSeq(new, LAMBDA e : e.id \notin EntryIds(entries))

\* EntryMetadata that counts the chunks from 0
EntryMetadata_ZeroBased(project_id, file_id, idx, chunk) ==
    DictUpdate([chunk_order |-> idx - 1, file_id |-> file_id, project_id |-> project_id],
               chunk.metadata)

\* the metadata of one entry (add_chunks, "Prepare metadata")
EntryMetadata(project_id, file_id, idx, chunk) ==
    DictUpdate([chunk_order |-> idx, file_id |-> file_id, project_id |-> project_id],
               chunk.metadata)

\* PrepareEntries without the test of the vector's dimension
RECURSIVE PrepareEntries_AnyDimension(_, _, _, _, _)
PrepareEntries_AnyDimension(project_id, file_id, chunks, embeddings, idx) ==
    IF idx > Len(chunks) \/ idx > Len(embeddings) THEN <<>>
    ELSE << [id        |-> ChunkId(file_id, idx),
             embedding |-> embeddings[idx],
             document  |-> chunks[idx].page_content,
             metadata  |-> EntryMetadata(project_id, file_id, idx, chunks[idx])] >>
         \o PrepareEntries_AnyDimension(project_id, file_id, chunks, embeddings, idx + 1)

\* the loop of add_chunks over zip(chunks, embeddings), from position idx
RECURSIVE PrepareEntries(_, _, _, _, _)
PrepareEntries(project_id, file_id, chunks, embeddings, idx) ==
    IF idx > Len(chunks) \/ idx > Len(embeddings) THEN <<>>
    ELSE LET rest == PrepareEntries(project_id, file_id, chunks, embeddings, idx + 1) IN
         IF Len(embeddings[idx]) # EMBEDDING_DIMENSION THEN rest
         ELSE << [id        |-> ChunkId(file_id, idx),
                  embedding |-> embeddings[idx],
                  document  |-> chunks[idx].page_content,
                  metadata  |-> EntryMetadata(project_id, file_id, idx, chunks[idx])] >>
              \o rest

\* VectorDBService.add_chunks; fault is "chroma_get" when the collection
\* cannot be obtained and "chroma_add" when Collection.add fails
add_chunks(index, project_id, chunks, embeddings, file_id, fault) ==
    IF chunks = <<>> \/ embeddings = <<>>
    THEN [index |-> index, count |-> 0, raised |-> "none"]
    ELSE IF fault = "chroma_get"
    THEN [index |-> index, count |-> 0, raised |-> "RuntimeError"]
    ELSE LET min_length == Min(Len(chunks), Len(embeddings))
             opened  == get_or_create_collection(index, project_id)
             name    == CollectionName(project_id)
             entries == PrepareEntries(project_id, file_id,
                                       SubSeq(chunks, 1, min_length),
                                       SubSeq(embeddings, 1, min_length), 1)
         IN  IF entries = <<>>
             THEN [index |-> opened, count |-> 0, raised |-> "none"]
             ELSE IF fault = "chroma_add"
             THEN [index |-> opened, count |-> 0, raised |-> "RuntimeError"]
             ELSE [index  |-> [opened EXCEPT ![name] = CollectionAdd(@, entries)],
                   count  |-> Len(entries),
                   raised |-> "none"]

\* squared Euclidean distance (the default space of a collection created
\* without "hnsw:space"), in units of 1/One
RECURSIVE SquaredL2(_, _, _)
SquaredL2(u, v, i) ==
    IF i > Len(u) THEN 0
    ELSE (u[i] - v[i]) * (u[i] - v[i]) + SquaredL2(u, v, i + 1)

\* stable insertion of a hit into a list ordered by ascending distance
RECURSIVE InsertByDistance(_, _)
InsertByDistance(sorted, hit) ==
    IF sorted = <<>> THEN <<hit>>
    ELSE IF hit.distance < Head(sorted).distance THEN <<hit>> \o sorted
    ELSE <<Head(sorted)>> \o InsertByDistance(Tail(sorted), hit)

RECURSIVE SortByDistance(_)
SortByDistance(hits) ==
    IF hits = <<>> THEN <<>>
    ELSE InsertByDistance(SortByDistance(SubSeq(hits, 1, Len(hits) - 1)), hits[Len(hits)])

\* CollectionQuery that applies the where clause to the n_results nearest
\* entries instead of to the candidates
CollectionQuery_PostFilter(entries, query_embedding, n_results, where_file) ==
    LET hits == [i \in 1..Len(entries) |->
                   [chunk_id   |-> entries[i].id,
                    chunk_text |-> entries[i].document,
                    distance   |-> SquaredL2(entries[i].embedding, query_embedding, 1),
                    metadata   |-> entries[i].metadata]]
        ranked == SortByDistance(hits)
    IN  SelectSeq(SubSeq(ranked, 1, Min(n_results, Len(ranked))),
                  LAMBDA h : where_file = "" \/ h.metadata["file_id"] = where_file)

\* chromadb Collection.query(query_embeddings, n_results, where): the where
\* clause selects the candidates, the n_results nearest are returned
CollectionQuery(entries, query_embedding, n_results, where_file) ==
    LET candidates == SelectSeq(entries,
                        LAMBDA e : where_file = "" \/ e.metadata["file_id"] = where_file)
        hits == [i \in 1..Len(candidates) |->
                   [chunk_id   |-> candidates[i].id,
                    chunk_text |-> candidates[i].document,
                    distance   |-> SquaredL2(candidates[i].embedding, query_embedding, 1),
                    metadata   |-> candidates[i].metadata]]
        ranked == SortByDistance(hits)
    IN  SubSeq(ranked, 1, Min(n_results, Len(ranked)))

\* the client calls by which get_or_create_collection obtains a collection
CollectionCalls(index, project_id) ==
    IF CollectionName(project_id) \in DOMAIN index
    THEN <<"get_collection">>
    ELSE <<"get_collection", "create_collection">>

\* InvalidQueryEmbedding without the dimension test
InvalidQueryEmbedding_EmptyOnly(query_embedding) == query_embedding = <<>>

\* search_similar, "if not query_embedding" and the dimension test
InvalidQueryEmbedding(query_embedding) ==
    query_embedding = <<>> \/ Len(query_embedding) # EMBEDDING_DIMENSION

\* VectorDBService.search_similar; file_id "" is "no filter"; fault is
\* "chroma_get" or "chroma_query" when the client call fails; client_calls
\* are the calls made to the ChromaDB client and collection
search_similar(index, project_id, query_embedding, top_k, file_id, fault) ==
    IF InvalidQueryEmbedding(query_embedding)
    THEN [index |-> index, results |-> <<>>, raised |-> "ValueError", queried |-> FALSE,
          client_calls |-> <<>>]
    ELSE IF fault = "chroma_get"
    THEN [index |-> index, results |-> <<>>, raised |-> "RuntimeError", queried |-> FALSE,
          client_calls |-> <<"get_collection">>]
    ELSE LET opened  == get_or_create_collection(index, project_id)
             entries == opened[CollectionName(project_id)]
             client_calls == CollectionCalls(index, project_id) \o <<"query">>
         IN
         \* the collection rejects a query vector of another dimension than
         \* its entries
         IF \/ fault = "chroma_query"
            \/ \E i \in 1..Len(entries) : Len(entries[i].embedding) # Len(query_embedding)
         THEN [index |-> opened, results |-> <<>>, raised |-> "RuntimeError", queried |-> TRUE,
               client_calls |-> client_calls]
         ELSE [index   |-> opened,
               results |-> CollectionQuery(entries, query_embedding, top_k, file_id),
               raised  |-> "none",
               queried |-> TRUE,
               client_calls |-> client_calls]

\* delete_chunks_by_file that gets the ids without the where clause
delete_chunks_by_file_WholeNamespace(index, project_id, file_id, fault) ==
    IF fault = "chroma_get"
    THEN [index |-> index, count |-> 0, raised |-> "RuntimeError"]
    ELSE LET opened  == get_or_create_collection(index, project_id)
             name    == CollectionName(project_id)
             ids     == {opened[name][i].id : i \in 1..Len(opened[name])}
         IN  IF fault = "chroma_delete"
             THEN [index |-> opened, count |-> 0, raised |-> "RuntimeError"]
             ELSE IF ids = {}
             THEN [index |-> opened, count |-> 0, raised |-> "none"]
             ELSE [index  |-> [opened EXCEPT ![name] = <<>>],
                   count  |-> Cardinality(ids),
                   raised |-> "none"]

\* VectorDBService.delete_chunks_by_file; fault is "chroma_get" when the
\* collection cannot be obtained and "chroma_delete" when Collection.get or
\* Collection.delete fails
delete_chunks_by_file(index, project_id, file_id, fault) ==
    IF fault = "chroma_get"
    THEN [index |-> index, count |-> 0, raised |-> "RuntimeError"]
    ELSE LET opened  == get_or_create_collection(index, project_id)
             name    == CollectionName(project_id)
             ids     == {opened[name][i].id : i \in {j \in 1..Len(opened[name]) :
                                  opened[name][j].metadata["file_id"] = file_id}}
         IN  IF fault = "chroma_delete"
             THEN [index |-> opened, count |-> 0, raised |-> "RuntimeError"]
             ELSE IF ids = {}
             THEN [index |-> opened, count |-> 0, raised |-> "none"]
             ELSE [index  |-> [opened EXCEPT ![name] = SelectSeq(@, LAMBDA e : e.id \notin ids)],
                   count  |-> Cardinality(ids),
                   raised |-> "none"]

\* VectorDBService.get_collection_stats; fault is "chroma_get" when the
\* collection cannot be obtained
get_collection_stats(index, project_id, fault) ==
    IF fault = "chroma_get"
    THEN [index |-> index, raised |-> "RuntimeError", stats |-> EmptyMap]
    ELSE LET opened  == get_or_create_collection(index, project_id)
             results == opened[CollectionName(project_id)]
             file_ids == {results[i].metadata["file_id"] : i \in 1..Len(results)}
         IN  [index  |-> opened,
              raised |-> "none",
              stats  |-> [project_id      |-> project_id,
                          collection_name |-> CHROMADB_COLLECTION_PREFIX \o project_id,
                          total_chunks    |-> Len(results),
                          unique_files    |-> Cardinality(file_ids),
                          file_ids        |-> file_ids]]

(***************************************************************************)
(* Project store (ProjectModel) and Chunk Store (ChunkModel)               *)
(***************************************************************************)
ProjectRecords(projects, project_id) ==
    SelectSeq(projects, LAMBDA r : r.project_id = project_id)

\* ProjectModel.get_project_or_create_one: find_one, else insert_one; the
\* ObjectId of a new record is its position in the collection
get_project_or_create_one(projects, project_id) ==
    LET found == ProjectRecords(projects, project_id) IN
    IF found = <<>>
    THEN [projects |-> Append(projects, [project_id |-> project_id, oid |-> Len(projects) + 1]),
          oid      |-> Len(projects) + 1]
    ELSE [projects |-> projects, oid |-> found[1].oid]

\* ChunkDocuments that attaches the embeddings only when there is one per
\* chunk
ChunkDocuments_AllOrNoEmbeddings(chunks, oid, file_id, embeddings) ==
    [idx \in 1..Len(chunks) |->
        [chunk_text       |-> chunks[idx].page_content,
         chunk_order      |-> idx,
         chunk_project_id |-> oid,
         file_id          |-> file_id,
         metadata         |-> chunks[idx].metadata,
         embedding        |-> IF Len(embeddings) = Len(chunks)
                              THEN embeddings[idx] ELSE <<>>]]

\* the DataChunk documents built by the loop of save_chunks
ChunkDocuments(chunks, oid, file_id, embeddings) ==
    [idx \in 1..Len(chunks) |->
        [chunk_text       |-> chunks[idx].page_content,
         chunk_order      |-> idx,
         chunk_project_id |-> oid,
         file_id          |-> file_id,
         metadata         |-> chunks[idx].metadata,
         embedding        |-> IF embeddings # <<>> /\ idx <= Len(embeddings)
                              THEN embeddings[idx] ELSE <<>>]]

\* DataChunk: chunk_text has min_length 1, chunk_order is > 0
DataChunkValid(doc) == Len(doc.chunk_text) >= 1 /\ doc.chunk_order > 0

\* save_chunks that inserts each document as soon as it is built
RECURSIVE InsertEach(_, _, _)
InsertEach(store, docs, i) ==
    IF i > Len(docs) THEN [store |-> store, raised |-> "none"]
    ELSE IF ~DataChunkValid(docs[i]) THEN [store |-> store, raised |-> "ValidationError"]
    ELSE InsertEach(Append(store, docs[i]), docs, i + 1)

save_chunks_InsertEach(store, chunks, oid, file_id, embeddings, fault) ==
    IF chunks = <<>>
    THEN [store |-> store, count |-> 0, raised |-> "none", storage_calls |-> <<>>]
    ELSE IF fault = "mongo"
    THEN [store |-> store, count |-> 0, raised |-> "Exception",
          storage_calls |-> <<"insert_one">>]
    ELSE LET done == InsertEach(store, ChunkDocuments(chunks, oid, file_id, embeddings), 1)
         IN  [store |-> done.store,
              count |-> IF done.raised = "none" THEN Len(chunks) ELSE 0,
              raised |-> done.raised,
              storage_calls |-> <<"insert_one">>]

\* ChunkModel.save_chunks; fault "mongo" is a failing insert_many;
\* storage_calls are the calls made to the chunk collection
save_chunks(store, chunks, oid, file_id, embeddings, fault) ==
    IF chunks = <<>>
    THEN [store |-> store, count |-> 0, raised |-> "none", storage_calls |-> <<>>]
    ELSE LET docs == ChunkDocuments(chunks, oid, file_id, embeddings) IN
         IF \E i \in 1..Len(docs) : ~DataChunkValid(docs[i])
         THEN [store |-> store, count |-> 0, raised |-> "ValidationError",
               storage_calls |-> <<>>]
         ELSE IF fault = "mongo"
         THEN [store |-> store, count |-> 0, raised |-> "Exception",
               storage_calls |-> <<"insert_many">>]
         ELSE [store |-> store \o docs, count |-> Len(docs), raised |-> "none",
               storage_calls |-> <<"insert_many">>]

(***************************************************************************)
(* Ingestion (process_endpoint)                                            *)
(***************************************************************************)
Chunk(text, metadata) == [page_content |-> text, metadata |-> metadata]

\* what the document loader and the text splitter make of a file on disk
DocCatLong == << Chunk(TextCat, [page |-> "0"]), Chunk(TextLong, [page |-> "1"]) >>
DocDogFull == << Chunk(TextDog, EmptyMap), Chunk(TextFull, EmptyMap) >>
DocBlankOwl == << Chunk(TextSpaces, [page |-> "0"]), Chunk(TextOwl, [page |-> "0"]) >>
Docs == {DocCatLong, DocDogFull, DocBlankOwl}

\* the file of a process request: absent, or present and split into chunks
FileSources ==
    {[exists |-> FALSE, chunks |-> <<>>]} \cup
    {[exists |-> TRUE, chunks |-> d] : d \in Docs \cup {<<>>}}

\* at most one collaborator fails in a process request
ProcessFaults == {"none", "embed", "mongo", "chroma_get", "chroma_add"}

ProcessFailed(code, error) ==
    [status |-> code, signal |-> "process failed", error |-> error]

\* EmbedChunks that falls back to zero vectors when the model fails
EmbedChunks_ZeroVectors(chunks, fault) ==
    LET chunk_texts == [i \in 1..Len(chunks) |-> chunks[i].page_content]
        batch       == generate_embeddings_batch(chunk_texts, EMBEDDING_BATCH_SIZE, fault = "embed")
    IN  IF batch.raised = "none"
        THEN [embeddings |-> batch.vectors, embeddings_generated |-> Len(batch.vectors)]
        ELSE [embeddings |-> [i \in 1..Len(chunks) |-> ZeroVector],
              embeddings_generated |-> Len(chunks)]

\* process_endpoint, "Generate embeddings for chunks": a failure leaves
\* embeddings = None and embeddings_generated = 0
EmbedChunks(chunks, fault) ==
    LET chunk_texts == [i \in 1..Len(chunks) |-> chunks[i].page_content]
        batch       == generate_embeddings_batch(chunk_texts, EMBEDDING_BATCH_SIZE, fault = "embed")
    IN  IF batch.raised = "none"
        THEN [embeddings |-> batch.vectors, embeddings_generated |-> Len(batch.vectors)]
        ELSE [embeddings |-> <<>>, embeddings_generated |-> 0]

\* StoreEmbeddings that reports the number of vectors it handed over
StoreEmbeddings_CountsAttempted(index, project_id, chunks, embeddings, file_id, fault) ==
    IF embeddings # <<>>
    THEN LET added == add_chunks(index, project_id, chunks, embeddings, file_id, fault)
         IN  [index |-> added.index, chromadb_count |-> Len(embeddings)]
    ELSE [index |-> index, chromadb_count |-> 0]

\* process_endpoint, "Store embeddings in ChromaDB": a failure of add_chunks
\* is logged and leaves chromadb_count = 0
StoreEmbeddings(index, project_id, chunks, embeddings, file_id, fault) ==
    IF embeddings # <<>>
    THEN LET added == add_chunks(index, project_id, chunks, embeddings, file_id, fault)
         IN  [index |-> added.index,
              chromadb_count |-> IF added.raised = "none" THEN added.count ELSE 0]
    ELSE [index |-> index, chromadb_count |-> 0]

\* process_endpoint that writes the Vector Index before the Chunk Store
process_endpoint_IndexFirst(st, project_id, file_id, src, fault) ==
    IF file_id = ""
    THEN [st |-> st, response |-> ProcessFailed(400, "file_id cannot be empty")]
    ELSE
    LET pr  == get_project_or_create_one(st.projects, project_id)
        st1 == [st EXCEPT !.projects = pr.projects]
    IN
    IF ~src.exists
    THEN [st |-> st1, response |-> ProcessFailed(400, "File not found")]
    ELSE IF src.chunks = <<>>
    THEN [st |-> st1, response |-> ProcessFailed(400, "No chunks created from file content")]
    ELSE
    LET chunks      == src.chunks
        embedded    == EmbedChunks(chunks, fault)
        embeddings  == embedded.embeddings
        stored      == StoreEmbeddings(st.vectorIndex, project_id, chunks, embeddings,
                                       file_id, fault)
        saved       == save_chunks(st.chunkStore, chunks, pr.oid, file_id, embeddings, fault)
    IN
    IF saved.raised # "none"
    THEN [st |-> [st1 EXCEPT !.vectorIndex = stored.index],
          response |-> ProcessFailed(500, "Unexpected error")]
    ELSE [st |-> [projects    |-> pr.projects,
                  chunkStore  |-> saved.store,
                  vectorIndex |-> stored.index],
          response |-> [status               |-> 200,
                        signal               |-> "process success",
                        chunks_count         |-> Len(chunks),
                        saved_count          |-> saved.count,
                        embeddings_generated |-> embedded.embeddings_generated,
                        chromadb_stored      |-> stored.chromadb_count > 0,
                        chromadb_count       |-> stored.chromadb_count]]

\* process_endpoint on the stores st = [projects, chunkStore, vectorIndex]
process_endpoint(st, project_id, file_id, src, fault) ==
    IF file_id = ""
    THEN [st |-> st, response |-> ProcessFailed(400, "file_id cannot be empty")]
    ELSE
    LET pr  == get_project_or_create_one(st.projects, project_id)
        st1 == [st EXCEPT !.projects = pr.projects]
    IN
    IF ~src.exists
    THEN [st |-> st1, response |-> ProcessFailed(400, "File not found")]
    ELSE IF src.chunks = <<>>
    THEN [st |-> st1, response |-> ProcessFailed(400, "No chunks created from file content")]
    ELSE
    LET chunks      == src.chunks
        embedded    == EmbedChunks(chunks, fault)
        embeddings  == embedded.embeddings
        saved       == save_chunks(st.chunkStore, chunks, pr.oid, file_id, embeddings, fault)
    IN
    IF saved.raised # "none"
    THEN [st |-> st1, response |-> ProcessFailed(500, "Unexpected error")]
    ELSE
    LET stored == StoreEmbeddings(st.vectorIndex, project_id, chunks, embeddings, file_id, fault)
    IN  [st |-> [projects    |-> pr.projects,
                 chunkStore  |-> saved.store,
                 vectorIndex |-> stored.index],
         response |-> [status               |-> 200,
                       signal               |-> "process success",
                       chunks_count         |-> Len(chunks),
                       saved_count          |-> saved.count,
                       embeddings_generated |-> embedded.embeddings_generated,
                       chromadb_stored      |-> stored.chromadb_count > 0,
                       chromadb_count       |-> stored.chromadb_count]]

(***************************************************************************)
(* Answer Generator (LLMService)                                           *)
(***************************************************************************)
\* LLMServiceInit that takes a whitespace-only key for a configured one
LLMServiceInit_NoStrip(api_key, client_instance, clientFails) ==
    IF api_key = <<>>
    THEN [client_instance |-> client_instance, available |-> FALSE]
    ELSE IF ~client_instance /\ clientFails
    THEN [client_instance |-> FALSE, available |-> FALSE]
    ELSE [client_instance |-> TRUE, available |-> TRUE]

\* LLMService.__init__ followed by is_available(); clientFails is the
\* outcome of OpenAI(api_key=...)
LLMServiceInit(api_key, client_instance, clientFails) ==
    IF api_key = <<>> \/ Strip(api_key) = <<>>
    THEN [client_instance |-> client_instance, available |-> FALSE]
    ELSE IF ~client_instance /\ clientFails
    THEN [client_instance |-> FALSE, available |-> FALSE]
    ELSE [client_instance |-> TRUE, available |-> TRUE]

\* what the completion API does with one call
LLMOutcomes == {"ok", "rate_limit", "invalid_api_key", "insufficient_quota", "other"}

\* the text of a completion, before .strip()
CompletionText == <<" ", "o", "k">>

LLMErrorMessage(outcome) ==
    CASE outcome = "rate_limit" -> "OpenAI API rate limit exceeded. Please try again later."
      [] outcome = "invalid_api_key" -> "Invalid OpenAI API key. Please check your configuration."
      [] outcome = "insufficient_quota" -> "OpenAI API quota exceeded. Please check your account."
      [] OTHER -> "Failed to generate LLM response: error"

\* LLMService.generate_response
generate_response(available, prompt, outcome) ==
    IF ~available THEN [raised |-> "ValueError", answer |-> <<>>, invoked |-> FALSE,
                        message |-> "OpenAI API key is not configured. Please set OPENAI_API_KEY in your .env file."]
    ELSE IF prompt = <<>> THEN [raised |-> "ValueError", answer |-> <<>>, invoked |-> FALSE,
                                message |-> "Prompt cannot be empty"]
    ELSE IF outcome # "ok" THEN [raised |-> "RuntimeError", answer |-> <<>>, invoked |-> TRUE,
                                 message |-> LLMErrorMessage(outcome)]
    ELSE [raised |-> "none", answer |-> Strip(CompletionText), invoked |-> TRUE, message |-> ""]

\* the prompt parts appended for one (chunk_text, source) pair
PromptPartsOf(idx, chunk_text, source) ==
    << [kind |-> "context", idx |-> idx, text |-> chunk_text],
       [kind |-> "source", file_id |-> source.file_id, chunk_order |-> source.chunk_order] >>
    \o (IF "distance" \in DOMAIN source
        THEN << [kind |-> "similarity", value |-> One - source.distance] >>
        ELSE <<>>)
    \o << [kind |-> "newline"] >>

RECURSIVE PromptContext(_, _, _)
PromptContext(context_chunks, sources, idx) ==
    IF idx > Len(context_chunks) \/ idx > Len(sources) THEN <<>>
    ELSE PromptPartsOf(idx, context_chunks[idx], sources[idx])
           \o PromptContext(context_chunks, sources, idx + 1)

\* LLMService.build_rag_prompt: the list prompt_parts that is joined
build_rag_prompt(query, context_chunks, sources) ==
    IF context_chunks = <<>>
    THEN << [kind |-> "question", query |-> query], [kind |-> "no_context"] >>
    ELSE << [kind |-> "preamble"], [kind |-> "context_header"] >>
         \o PromptContext(context_chunks, sources, 1)
         \o << [kind |-> "question", query |-> query], [kind |-> "instruction"] >>

(***************************************************************************)
(* Retrieval Orchestrator (RAGService)                                     *)
(***************************************************************************)
\* max(0.0, min(1.0, 1.0 - distance))
Similarity(distance) == Max(0, Min(One, One - distance))

Annotate(result) ==
    [chunk_id   |-> result.chunk_id,
     chunk_text |-> result.chunk_text,
     distance   |-> result.distance,
     metadata   |-> result.metadata,
     similarity |-> Similarity(result.distance)]

\* FilterByThreshold with a strict comparison
FilterByThreshold_Strict(results, similarity_threshold) ==
    IF similarity_threshold > 0 /\ results # <<>>
    THEN LET kept == SelectSeq(results,
                        LAMBDA r : Similarity(r.distance) > similarity_threshold)
         IN  [i \in 1..Len(kept) |-> Annotate(kept[i])]
    ELSE [i \in 1..Len(results) |-> Annotate(results[i])]

\* retrieve_context, "Filter by similarity threshold": the query of the
\* model always returns distances, so the None default is not taken
FilterByThreshold(results, similarity_threshold) ==
    IF similarity_threshold > 0 /\ results # <<>>
    THEN LET kept == SelectSeq(results,
                        LAMBDA r : Similarity(r.distance) >= similarity_threshold)
         IN  [i \in 1..Len(kept) |-> Annotate(kept[i])]
    ELSE [i \in 1..Len(results) |-> Annotate(results[i])]

\* what fails in a chat call: the embedding model, the index client, or
\* the completion API
ChatFaults == {"none", "embed", "chroma_get", "chroma_query"}

\* RetrievalError that swallows the failure and returns no chunks
RetrievalError_Swallowed(index, embed, search) ==
    [index |-> index, chunks |-> <<>>, results |-> <<>>, raised |-> "none",
     embed |-> embed, search |-> search]

\* retrieve_context, "except Exception as e: raise RuntimeError(...)"
RetrievalError(index, embed, search) ==
    [index |-> index, chunks |-> <<>>, results |-> <<>>, raised |-> "RuntimeError",
     embed |-> embed, search |-> search]

\* RAGService.retrieve_context; top_k is <<>> (None) or <<k>>
retrieve_context(index, project_id, query, top_k, file_id, similarity_threshold, fault) ==
    IF IsBlank(query)
    THEN [index |-> index, chunks |-> <<>>, results |-> <<>>, raised |-> "none",
          embed |-> 0, search |-> 0]
    ELSE
    LET emb == generate_embedding(Strip(query), fault = "embed") IN
    IF emb.raised # "none"
    THEN RetrievalError(index, 1, 0)
    ELSE
    LET search_top_k == IF top_k # <<>> THEN top_k[1] ELSE RAG_CONTEXT_CHUNKS
        found == search_similar(index, project_id, emb.vector, search_top_k, file_id, fault)
    IN
    IF found.raised # "none"
    THEN RetrievalError(found.index, 1, 1)
    ELSE [index   |-> found.index,
          chunks  |-> FilterByThreshold(found.results, similarity_threshold),
          results |-> found.results,
          raised  |-> "none", embed |-> 1, search |-> 1]

Ellipsis == <<".", ".", ".">>

\* Excerpt that also cuts a text of exactly ExcerptLen characters
Excerpt_Inclusive(text) ==
    IF Len(text) >= ExcerptLen THEN SubSeq(text, 1, ExcerptLen) \o Ellipsis ELSE text

\* the "chunk_text" of a citation
Excerpt(text) ==
    IF Len(text) > ExcerptLen THEN SubSeq(text, 1, ExcerptLen) \o Ellipsis ELSE text

DictGet(d, key, default) == IF key \in DOMAIN d THEN d[key] ELSE default

\* RAGService.format_sources
format_sources(chunks) ==
    [idx \in 1..Len(chunks) |->
        [source_index |-> idx,
         file_id      |-> DictGet(chunks[idx].metadata, "file_id", "unknown"),
         chunk_order  |-> DictGet(chunks[idx].metadata, "chunk_order", 0),
         chunk_text   |-> Excerpt(chunks[idx].chunk_text),
         similarity   |-> IF "similarity" \in DOMAIN chunks[idx]
                          THEN chunks[idx].similarity
                          ELSE Max(0, One - chunks[idx].distance)]]

\* the collaborators invoked by one chat call, and the prompt it sent
\* (results: what search_similar returned, chunks: what retrieve_context
\* returned)
NoCalls == [embed |-> 0, search |-> 0, llm |-> 0, prompt |-> <<>>,
            results |-> <<>>, chunks |-> <<>>]

NoInfoAnswer == "I couldn't find any relevant information in the documents to answer your question. Please try rephrasing your query or ensure documents have been processed."

NotConfiguredError == "OpenAI API key is not configured. Please set OPENAI_API_KEY in your .env file to enable AI chat responses."

\* how the construction of the LLMService inside RAGService.__init__ ends
LLMInits == {"ok", "client_fails", "raises"}

\* RAGServiceInit that takes the Answer Generator for available whenever
\* the LLMService was constructed
RAGServiceInit_AlwaysAvailable(api_key, client_instance, llmInit) ==
    IF llmInit = "raises"
    THEN [client_instance |-> client_instance, llm_service |-> FALSE, llm_available |-> FALSE]
    ELSE LET llm == LLMServiceInit(api_key, client_instance, llmInit = "client_fails") IN
         [client_instance |-> llm.client_instance, llm_service |-> TRUE,
          llm_available |-> TRUE]

\* RAGService.__init__: llm_service is set unless LLMService() raised
RAGServiceInit(api_key, client_instance, llmInit) ==
    IF llmInit = "raises"
    THEN [client_instance |-> client_instance, llm_service |-> FALSE, llm_available |-> FALSE]
    ELSE LET llm == LLMServiceInit(api_key, client_instance, llmInit = "client_fails") IN
         [client_instance |-> llm.client_instance, llm_service |-> TRUE,
          llm_available |-> llm.available]

\* NoChunksResult that reports the empty retrieval as an error
NoChunksResult_AsError(query) ==
    [answer |-> <<>>,
     sources |-> <<>>,
     query |-> query,
     chunks_retrieved |-> 0,
     error |-> "No relevant chunks found"]

\* generate_answer, "if not chunks": the zero-result answer
NoChunksResult(query) ==
    [answer |-> <<NoInfoAnswer>>,
     sources |-> <<>>,
     query |-> query,
     chunks_retrieved |-> 0,
     debug_info |-> "No chunks retrieved. Check if documents were processed and embeddings were stored."]

\* generate_answer, "if not self.llm_available or self.llm_service is None"
SearchOnlyResult(query, chunks, sources) ==
    [answer |-> <<>>,
     search_results |-> sources,
     query |-> query,
     chunks_retrieved |-> Len(chunks),
     error |-> NotConfiguredError]

\* GenerationResult without the inner try: the failure leaves through the
\* outer handler as RuntimeError
GenerationResult_Propagates(query, chunks, sources, gen) ==
    IF gen.raised # "none"
    THEN [raised |-> "RuntimeError", body |-> EmptyMap]
    ELSE [raised |-> "none",
          body |-> [answer |-> <<gen.answer>>,
                    sources |-> sources,
                    search_results |-> sources,
                    query |-> query,
                    chunks_retrieved |-> Len(chunks)]]

\* generate_answer, steps 5 and 6: build the prompt, call the LLM and
\* assemble the result from gen = generate_response(...)
GenerationResult(query, chunks, sources, gen) ==
    IF gen.raised # "none"
    THEN [raised |-> "none",
          body |-> [answer |-> <<>>,
                    search_results |-> sources,
                    sources |-> sources,
                    query |-> query,
                    chunks_retrieved |-> Len(chunks),
                    error |-> "LLM generation failed: " \o gen.message,
                    warning |-> "LLM generation failed, returning search results only"]]
    ELSE [raised |-> "none",
          body |-> [answer |-> <<gen.answer>>,
                    sources |-> sources,
                    search_results |-> sources,
                    query |-> query,
                    chunks_retrieved |-> Len(chunks)]]

\* RAGService.generate_answer of a service rag = RAGServiceInit(...)
generate_answer(index, rag, similarity_threshold, project_id, query, file_id, top_k, fault, llmOutcome) ==
    IF IsBlank(query)
    THEN [index |-> index, raised |-> "ValueError", body |-> EmptyMap, calls |-> NoCalls]
    ELSE
    LET got == retrieve_context(index, project_id, query, top_k, file_id,
                                similarity_threshold, fault)
        made == [embed |-> got.embed, search |-> got.search, llm |-> 0, prompt |-> <<>>,
                 results |-> got.results, chunks |-> got.chunks]
    IN
    IF got.raised # "none"
    THEN [index |-> got.index, raised |-> "RuntimeError", body |-> EmptyMap, calls |-> made]
    ELSE IF got.chunks = <<>>
    THEN [index |-> got.index, raised |-> "none", calls |-> made,
          body |-> NoChunksResult(query)]
    ELSE
    LET chunks == got.chunks
        sources == format_sources(chunks)
        context_texts == [i \in 1..Len(chunks) |-> chunks[i].chunk_text]
    IN
    IF ~rag.llm_available \/ ~rag.llm_service
    THEN [index |-> got.index, raised |-> "none", calls |-> made,
          body |-> SearchOnlyResult(query, chunks, sources)]
    ELSE
    LET prompt == build_rag_prompt(query, context_texts, sources)
        gen == generate_response(rag.llm_available, prompt, llmOutcome)
        res == GenerationResult(query, chunks, sources, gen)
    IN  [index  |-> got.index,
         raised |-> res.raised,
         body   |-> res.body,
         calls  |-> [made EXCEPT !.llm = IF gen.invoked THEN 1 ELSE 0, !.prompt = prompt]]

(***************************************************************************)
(* Requests in flight and the process-wide model cache                     *)
(***************************************************************************)
\* the requests the event loop serves concurrently
Requests == 1..MaxRequests

\* _model_instance = None; a loaded model is identified by a positive number
NoModel == 0

\* Settings.EMBEDDING_MODEL
EMBEDDING_MODEL == "all-MiniLM-L6-v2"

\* a request that has not arrived yet
Idle == [at |-> "idle", project_id |-> "", oid |-> 0, model |-> NoModel, raised |-> "none"]

\* collection.find_one({"project_id": project_id}): <<>> is None
find_one(projects, project_id) ==
    LET found == ProjectRecords(projects, project_id) IN
    IF found = <<>> THEN <<>> ELSE <<found[1]>>

\* ProjectModel.create_project: insert_one gives the record its _id
create_project(projects, project_id) ==
    [projects |-> Append(projects, [project_id |-> project_id, oid |-> Len(projects) + 1]),
     oid      |-> Len(projects) + 1]

\* _load_model that loads a model for every provider
_load_model_AlwaysLoads(cache, name, loadFails) ==
    IF loadFails
    THEN [cache  |-> [cache EXCEPT !.modelLoads.attempted = @ + 1],
          raised |-> "RuntimeError", model |-> NoModel]
    ELSE LET built == cache.modelLoads.loaded + 1 IN
         [cache  |-> [model_instance |-> built, model_name |-> name,
                      modelLoads |-> [attempted |-> cache.modelLoads.attempted + 1,
                                      loaded    |-> built]],
          raised |-> "none", model |-> built]

\* _load_model that gives a provider a model of its own when the cache is
\* already filled
_load_model_PrivateCopy(cache, name, loadFails) ==
    IF loadFails
    THEN [cache  |-> [cache EXCEPT !.modelLoads.attempted = @ + 1],
          raised |-> "RuntimeError", model |-> NoModel]
    ELSE LET built == cache.modelLoads.loaded + 1
             loads == [attempted |-> cache.modelLoads.attempted + 1, loaded |-> built]
         IN  IF cache.model_instance = NoModel \/ cache.model_name # name
             THEN [cache  |-> [model_instance |-> built, model_name |-> name,
                               modelLoads |-> loads],
                   raised |-> "none", model |-> built]
             ELSE [cache  |-> [cache EXCEPT !.modelLoads = loads],
                   raised |-> "none", model |-> built]

\* EmbeddingService._load_model; cache is the class-level cache with the
\* count of SentenceTransformer(...) calls, loadFails the outcome of such a
\* call, model the provider's self.model
_load_model(cache, name, loadFails) ==
    IF cache.model_instance = NoModel \/ cache.model_name # name
    THEN IF loadFails
         THEN [cache  |-> [cache EXCEPT !.modelLoads.attempted = @ + 1],
               raised |-> "RuntimeError", model |-> NoModel]
         ELSE LET built == cache.modelLoads.loaded + 1 IN
              [cache  |-> [model_instance |-> built, model_name |-> name,
                           modelLoads |-> [attempted |-> cache.modelLoads.attempted + 1,
                                           loaded    |-> built]],
               raised |-> "none", model |-> built]
    ELSE [cache |-> cache, raised |-> "none", model |-> cache.model_instance]

(***************************************************************************)
(* State                                                                   *)
(***************************************************************************)
VARIABLES
    projects,       \* the project collection of the document store
    chunkStore,     \* the chunk collection of the document store
    vectorIndex,    \* the collections of the ChromaDB client
    settings,       \* the Settings read by get_settings()
    llm_client,     \* LLMService._client_instance is set
    request,        \* the last request served
    response,       \* what the last request returned or raised
    calls,          \* the collaborators the last chat call invoked
    nIngest,        \* process requests served
    nChat,          \* chat calls served
    nOps,           \* direct calls of the index and chunk store services served
    model_instance, \* EmbeddingService._model_instance
    model_name,     \* EmbeddingService._model_name
    modelLoads,     \* the SentenceTransformer(...) calls made and the models they built
    pc              \* where each request in flight stands

vars == <<projects, chunkStore, vectorIndex, settings, llm_client,
          request, response, calls, nIngest, nChat, nOps,
          model_instance, model_name, modelLoads, pc>>

\* the state of the model cache and of the requests in flight
requestVars == <<model_instance, model_name, modelLoads, pc>>

\* no model is loaded and no request is in flight
InitRequests ==
    /\ model_instance = NoModel
    /\ model_name = ""
    /\ modelLoads = [attempted |-> 0, loaded |-> 0]
    /\ pc = [r \in Requests |-> Idle]

Stores == [projects |-> projects, chunkStore |-> chunkStore, vectorIndex |-> vectorIndex]

DefaultSettings == [OPENAI_API_KEY |-> <<>>, RAG_SIMILARITY_THRESHOLD |-> 0]

Init ==
    /\ projects = <<>>
    /\ chunkStore = <<>>
    /\ vectorIndex = EmptyMap
    /\ settings = DefaultSettings
    /\ llm_client = FALSE
    /\ request = [op |-> "none"]
    /\ response = [status |-> 0]
    /\ calls = NoCalls
    /\ nIngest = 0
    /\ nChat = 0
    /\ nOps = 0
    /\ InitRequests

\* POST /process/{project_id}
Process(project_id, file_id, src, fault) ==
    /\ nIngest < MaxIngest
    /\ LET out == process_endpoint(Stores, project_id, file_id, src, fault) IN
        /\ projects' = out.st.projects
        /\ chunkStore' = out.st.chunkStore
        /\ vectorIndex' = out.st.vectorIndex
        /\ response' = out.response
    /\ request' = [op |-> "process", project_id |-> project_id, file_id |-> file_id,
                   chunks |-> src.chunks, fault |-> fault]
    /\ calls' = NoCalls
    /\ nIngest' = nIngest + 1
    /\ UNCHANGED <<settings, llm_client, nChat, nOps, requestVars>>

Next ==
    \E project_id \in Projects, file_id \in Files \cup {""},
       src \in FileSources, fault \in ProcessFaults :
        Process(project_id, file_id, src, fault)

Spec == Init /\ [][Next]_vars

(***************************************************************************)
(* Chat calls                                                              *)
(***************************************************************************)
EmptyStores == [projects |-> <<>>, chunkStore |-> <<>>, vectorIndex |-> EmptyMap]

\* the process requests that populate the stores before the chat calls
SeedCatLong == <<"p1", "f1", DocCatLong>>
SeedDogFull == <<"p1", "f2", DocDogFull>>
SeedBlankOwl == <<"p2", "f1", DocBlankOwl>>

SeedScenarios ==
    { <<>>, <<SeedCatLong>>, <<SeedBlankOwl>>, <<SeedCatLong, SeedDogFull>>,
      <<SeedCatLong, SeedDogFull, SeedBlankOwl>> }

\* the stores after the process requests of a scenario, served without a fault
RECURSIVE SeededStores(_)
SeededStores(scenario) ==
    IF scenario = <<>> THEN EmptyStores
    ELSE LET r == scenario[Len(scenario)] IN
         process_endpoint(SeededStores(SubSeq(scenario, 1, Len(scenario) - 1)),
                          r[1], r[2], [exists |-> TRUE, chunks |-> r[3]], "none").st

ApiKeys == { <<" ">>, <<"s", "k">> }
\* RAG_SIMILARITY_THRESHOLD: 0.0 (the default) and 0.6
Thresholds == {0, 15}

ChatSettings ==
    [OPENAI_API_KEY : ApiKeys, RAG_SIMILARITY_THRESHOLD : Thresholds]

InitChat ==
    /\ \E scenario \in SeedScenarios :
       LET st == SeededStores(scenario) IN
        /\ projects = st.projects
        /\ chunkStore = st.chunkStore
        /\ vectorIndex = st.vectorIndex
    /\ settings \in ChatSettings
    \* an earlier chat call of the process may have created the OpenAI client
    /\ llm_client \in (IF IsBlank(settings.OPENAI_API_KEY) THEN {FALSE} ELSE BOOLEAN)
    /\ request = [op |-> "none"]
    /\ response = [status |-> 0]
    /\ calls = NoCalls
    /\ nIngest = 0
    /\ nChat = 0
    /\ nOps = 0
    /\ InitRequests

Queries == { <<>>, TextSpaces, <<" ">> \o TextCat, TextOwl \o <<" ">> }
TopKs == { <<>>, <<1>> }
\* no file filter, or the file f1
FileFilters == {"", "f1"}

\* what goes wrong in one chat call (at most one collaborator fails)
ChatEvents ==
    {"none", "embed", "chroma_get", "chroma_query",
     "llm_client_fails", "llm_raises", "rate_limit", "other"}

\* rag_service = RAGService(); rag_service.generate_answer(...)
GenerateAnswer(project_id, query, file_id, top_k, event) ==
    /\ nChat < MaxChat
    /\ LET llmInit == IF event = "llm_client_fails" THEN "client_fails"
                      ELSE IF event = "llm_raises" THEN "raises" ELSE "ok"
           rag == RAGServiceInit(settings.OPENAI_API_KEY, llm_client, llmInit)
           out == generate_answer(vectorIndex, rag, settings.RAG_SIMILARITY_THRESHOLD,
                                  project_id, query, file_id, top_k,
                                  IF event \in ChatFaults THEN event ELSE "none",
                                  IF event \in LLMOutcomes THEN event ELSE "ok")
       IN
        /\ llm_client' = rag.client_instance
        /\ vectorIndex' = out.index
        /\ response' = [raised |-> out.raised, body |-> out.body]
        /\ calls' = out.calls
        /\ request' = [op |-> "chat", project_id |-> project_id, query |-> query,
                       file_id |-> file_id, top_k |-> top_k, event |-> event]
    /\ nChat' = nChat + 1
    /\ UNCHANGED <<projects, chunkStore, settings, nIngest, nOps, requestVars>>

NextChat ==
    \E project_id \in Projects, query \in Queries, file_id \in FileFilters,
       top_k \in TopKs, event \in ChatEvents :
        GenerateAnswer(project_id, query, file_id, top_k, event)

SpecChat == InitChat /\ [][NextChat]_vars

(***************************************************************************)
(* Direct calls of the Vector Index (VectorDBService)                      *)
(***************************************************************************)
\* vectors of another dimension than the configured one
ShortVector == [i \in 1..(EMBEDDING_DIMENSION - 1) |-> UnitLen]
LongVector == [i \in 1..(EMBEDDING_DIMENSION + 1) |-> IF i = 1 THEN UnitLen ELSE 0]

\* the chunk lists and the vector lists handed to add_chunks
ChunkLists ==
    { <<>>,
      << Chunk(TextOwl, [page |-> "7"]) >>,
      << Chunk(TextCat, EmptyMap), Chunk(TextDog, EmptyMap) >>,
      \* a chunk whose own metadata names a file and a project
      << Chunk(TextDog, [file_id |-> "f2", project_id |-> "p2"]) >> }
EmbeddingLists ==
    { <<>>,
      << Directions[1] >>,
      << ShortVector, Directions[2] >>,
      << Directions[3], Directions[4], LongVector >> }

\* the query vectors, result counts and file filters handed to search_similar
QueryEmbeddings == { <<>>, ShortVector, Directions[1], Directions[3] }
SearchTopKs == {1, 3}
SearchFilters == {"", "f2"}

DeleteFaults == {"none", "chroma_delete"}

\* the index before the direct calls: empty, or populated by process requests
IndexScenarios == { <<>>, <<SeedCatLong, SeedDogFull, SeedBlankOwl>> }

InitIndex ==
    /\ \E scenario \in IndexScenarios :
       LET st == SeededStores(scenario) IN
        /\ projects = st.projects
        /\ chunkStore = st.chunkStore
        /\ vectorIndex = st.vectorIndex
    /\ settings = DefaultSettings
    /\ llm_client = FALSE
    /\ request = [op |-> "none"]
    /\ response = [status |-> 0]
    /\ calls = NoCalls
    /\ nIngest = 0
    /\ nChat = 0
    /\ nOps = 0
    /\ InitRequests

\* VectorDBService().add_chunks(project_id, chunks, embeddings, file_id)
AddChunks(project_id, file_id, chunks, embeddings) ==
    /\ nOps < MaxIndexOps
    /\ LET out == add_chunks(vectorIndex, project_id, chunks, embeddings, file_id, "none") IN
        /\ vectorIndex' = out.index
        /\ response' = [raised |-> out.raised, count |-> out.count]
    /\ request' = [op |-> "add_chunks", project_id |-> project_id, file_id |-> file_id,
                   chunks |-> chunks, embeddings |-> embeddings]
    /\ nOps' = nOps + 1
    /\ UNCHANGED <<projects, chunkStore, settings, llm_client, calls, nIngest, nChat, requestVars>>

\* VectorDBService().search_similar(project_id, query_embedding, top_k, file_id)
SearchSimilar(project_id, query_embedding, top_k, file_id) ==
    /\ nOps < MaxIndexOps
    /\ LET out == search_similar(vectorIndex, project_id, query_embedding, top_k,
                                 file_id, "none") IN
        /\ vectorIndex' = out.index
        /\ response' = [raised |-> out.raised, results |-> out.results,
                        client_calls |-> out.client_calls]
    /\ request' = [op |-> "search_similar", project_id |-> project_id,
                   query_embedding |-> query_embedding, top_k |-> top_k,
                   file_id |-> file_id]
    /\ nOps' = nOps + 1
    /\ UNCHANGED <<projects, chunkStore, settings, llm_client, calls, nIngest, nChat, requestVars>>

\* VectorDBService().delete_chunks_by_file(project_id, file_id)
DeleteChunksByFile(project_id, file_id, fault) ==
    /\ nOps < MaxIndexOps
    /\ LET out == delete_chunks_by_file(vectorIndex, project_id, file_id, fault) IN
        /\ vectorIndex' = out.index
        /\ response' = [raised |-> out.raised, count |-> out.count]
    /\ request' = [op |-> "delete_chunks_by_file", project_id |-> project_id,
                   file_id |-> file_id, fault |-> fault]
    /\ nOps' = nOps + 1
    /\ UNCHANGED <<projects, chunkStore, settings, llm_client, calls, nIngest, nChat, requestVars>>

StatsFaults == {"none", "chroma_get"}

\* VectorDBService().get_collection_stats(project_id)
CollectionStats(project_id, fault) ==
    /\ nOps < MaxIndexOps
    /\ LET out == get_collection_stats(vectorIndex, project_id, fault) IN
        /\ vectorIndex' = out.index
        /\ response' = [raised |-> out.raised, stats |-> out.stats]
    /\ request' = [op |-> "get_collection_stats", project_id |-> project_id,
                   fault |-> fault]
    /\ nOps' = nOps + 1
    /\ UNCHANGED <<projects, chunkStore, settings, llm_client, calls, nIngest, nChat, requestVars>>

NextIndex ==
    \/ \E project_id \in Projects, file_id \in Files,
          chunks \in ChunkLists, embeddings \in EmbeddingLists :
           AddChunks(project_id, file_id, chunks, embeddings)
    \/ \E project_id \in Projects, query_embedding \in QueryEmbeddings,
          top_k \in SearchTopKs, file_id \in SearchFilters :
           SearchSimilar(project_id, query_embedding, top_k, file_id)
    \/ \E project_id \in Projects, file_id \in Files, fault \in DeleteFaults :
           DeleteChunksByFile(project_id, file_id, fault)
    \/ \E project_id \in Projects, fault \in StatsFaults :
           CollectionStats(project_id, fault)

SpecIndex == InitIndex /\ [][NextIndex]_vars

(***************************************************************************)
(* Direct calls of the Chunk Store (ChunkModel)                            *)
(***************************************************************************)
\* the ObjectIds of two project records
ProjectOids == {1, 2}

\* the chunk lists handed to save_chunks; the last one holds a chunk whose
\* text is empty
SaveChunkLists ==
    { <<>>,
      << Chunk(TextOwl, [page |-> "7"]) >>,
      << Chunk(TextCat, EmptyMap), Chunk(TextDog, EmptyMap) >>,
      << Chunk(TextCat, EmptyMap), Chunk(<<>>, EmptyMap) >> }

\* the embeddings argument: None, or a list of vectors
SaveEmbeddingLists == { <<>>, << Directions[1] >>, << Directions[2], Directions[3] >> }

SaveFaults == {"none", "mongo"}

\* ChunkModel(db_client).save_chunks(chunks, project_id, file_id, embeddings)
SaveChunks(oid, file_id, chunks, embeddings, fault) ==
    /\ nOps < MaxSaves
    /\ LET out == save_chunks(chunkStore, chunks, oid, file_id, embeddings, fault) IN
        /\ chunkStore' = out.store
        /\ response' = [raised |-> out.raised, count |-> out.count,
                        storage_calls |-> out.storage_calls]
    /\ request' = [op |-> "save_chunks", oid |-> oid, file_id |-> file_id,
                   chunks |-> chunks, embeddings |-> embeddings, fault |-> fault]
    /\ nOps' = nOps + 1
    /\ UNCHANGED <<projects, vectorIndex, settings, llm_client, calls, nIngest, nChat, requestVars>>

NextChunks ==
    \E oid \in ProjectOids, file_id \in Files, chunks \in SaveChunkLists,
       embeddings \in SaveEmbeddingLists, fault \in SaveFaults :
        SaveChunks(oid, file_id, chunks, embeddings, fault)

SpecChunks == Init /\ [][NextChunks]_vars

(***************************************************************************)
(* Properties of a chat call, stated on the request served last.  The      *)
(* definitions below describe the expected outcome from the request, the   *)
(* settings and the entries of the index, without the operators above.     *)
(***************************************************************************)
ChatServed == request.op = "chat"

\* the query is empty or consists of whitespace only
BlankQuery(q) == \A i \in 1..Len(q) : q[i] = " "

\* the query without the whitespace around it
Trimmed(q) ==
    LET inner == {i \in 1..Len(q) : q[i] # " "}
        lo == CHOOSE i \in inner : \A j \in inner : i <= j
        hi == CHOOSE i \in inner : \A j \in inner : j <= i
    IN  [k \in 1..(hi - lo + 1) |-> q[lo + k - 1]]

RetrievalFaults == {"embed", "chroma_get", "chroma_query"}

\* a chat call with a non-blank query whose embedding and search succeeded
Retrieved ==
    /\ ChatServed
    /\ ~BlankQuery(request.query)
    /\ request.event \notin RetrievalFaults

\* the entries of the namespace of the request's project
RequestEntries ==
    IF CollectionName(request.project_id) \in DOMAIN vectorIndex
    THEN vectorIndex[CollectionName(request.project_id)] ELSE <<>>

\* positions of the entries the file filter admits
Candidates ==
    {i \in 1..Len(RequestEntries) :
        request.file_id = "" \/ RequestEntries[i].metadata["file_id"] = request.file_id}

\* the sum of the first n elements of a sequence of numbers
RECURSIVE SumOf(_, _)
SumOf(seq, n) == IF n = 0 THEN 0 ELSE SumOf(seq, n - 1) + seq[n]

\* the distance of an entry from the query vector
DistanceTo(entry) ==
    LET q == Encode(Trimmed(request.query))
        d == [i \in 1..Len(q) |-> entry.embedding[i] - q[i]]
    IN  SumOf([i \in 1..Len(q) |-> d[i] * d[i]], Len(q))

\* s = clamp(1 - d, 0, 1)
Clamped(d) == IF One - d < 0 THEN 0 ELSE IF One - d > One THEN One ELSE One - d

SimilarityTo(entry) == Clamped(DistanceTo(entry))

Threshold == settings.RAG_SIMILARITY_THRESHOLD

\* the entry passes the configured threshold
Passes(entry) == Threshold > 0 => SimilarityTo(entry) >= Threshold

EffectiveTopK == IF request.top_k = <<>> THEN RAG_CONTEXT_CHUNKS ELSE request.top_k[1]

\* positions of the entries among the EffectiveTopK nearest candidates
\* (ties in insertion order)
Nearest ==
    {i \in Candidates :
        Cardinality({j \in Candidates :
            \/ DistanceTo(RequestEntries[j]) < DistanceTo(RequestEntries[i])
            \/ DistanceTo(RequestEntries[j]) = DistanceTo(RequestEntries[i]) /\ j < i})
        < EffectiveTopK}

\* positions of the surviving chunks
Survivors == {i \in Nearest : Passes(RequestEntries[i])}

\* the rank (from 1) of a surviving chunk
RankOf(i) ==
    1 + Cardinality({j \in Survivors :
            \/ DistanceTo(RequestEntries[j]) < DistanceTo(RequestEntries[i])
            \/ DistanceTo(RequestEntries[j]) = DistanceTo(RequestEntries[i]) /\ j < i})

\* the excerpt of a citation: the text, or its first ExcerptLen characters
\* and the ellipsis marker
ExpectedExcerpt(text) ==
    IF Len(text) <= ExcerptLen THEN text
    ELSE [k \in 1..(ExcerptLen + 3) |-> IF k <= ExcerptLen THEN text[k] ELSE "."]

\* the citation of the surviving chunk at position i of the namespace
CitationOf(i) ==
    [source_index |-> RankOf(i),
     file_id      |-> RequestEntries[i].metadata["file_id"],
     chunk_order  |-> RequestEntries[i].metadata["chunk_order"],
     chunk_text   |-> ExpectedExcerpt(RequestEntries[i].document),
     similarity   |-> SimilarityTo(RequestEntries[i])]

\* cites is the list of the citations of the surviving chunks in rank order
CitesSurvivors(cites) ==
    /\ Len(cites) = Cardinality(Survivors)
    /\ \A i \in Survivors : cites[RankOf(i)] = CitationOf(i)

\* the Answer Generator is unavailable: no API key is configured, or the
\* construction of the LLMService failed (without a client created earlier)
GeneratorUnavailable ==
    \/ BlankQuery(settings.OPENAI_API_KEY)
    \/ request.event = "llm_raises"
    \/ request.event = "llm_client_fails" /\ ~llm_client

Body == response.body
Returned == response.raised = "none"

\* C1: a chat call with a non-blank query in which no chunk survives
\* retrieval returns the fixed "no relevant information" answer, an empty
\* sources list, chunks_retrieved = 0 and no error field, whether or not the
\* Answer Generator is available, and does not invoke the Answer Generator.
C1_NoChunkAnswer ==
    (Retrieved /\ Survivors = {}) =>
        /\ Returned
        /\ Body["answer"] = <<NoInfoAnswer>>
        /\ Body["sources"] = <<>>
        /\ Body["chunks_retrieved"] = 0
        /\ "error" \notin DOMAIN Body
        /\ calls.llm = 0 /\ calls.prompt = <<>>

\* every candidate was dropped by the threshold, with the Answer Generator
\* available
C1_Witness ==
    /\ Retrieved /\ Survivors = {} /\ Candidates # {}
    /\ ~GeneratorUnavailable
    /\ Returned /\ Body["chunks_retrieved"] = 0

\* C2: when at least one chunk survives and the Answer Generator is
\* unavailable, the call returns with a null answer, the citations of the
\* surviving chunks in rank order as search_results, their number as
\* chunks_retrieved and a non-empty error string, and does not invoke the
\* Answer Generator.
C2_UnavailableDegrades ==
    (Retrieved /\ Survivors # {} /\ GeneratorUnavailable) =>
        /\ Returned
        /\ Body["answer"] = <<>>
        /\ CitesSurvivors(Body["search_results"])
        /\ Body["chunks_retrieved"] = Cardinality(Survivors)
        /\ "error" \in DOMAIN Body /\ Body["error"] # ""
        /\ calls.llm = 0 /\ calls.prompt = <<>>

\* two chunks survive with no API key configured
C2_Witness ==
    /\ Retrieved /\ Cardinality(Survivors) >= 2 /\ GeneratorUnavailable
    /\ BlankQuery(settings.OPENAI_API_KEY)
    /\ Returned /\ Len(Body["search_results"]) >= 2

\* the failures of the completion call
GenerationFailures == {"rate_limit", "other"}

\* C3: when at least one chunk survives and the available Answer Generator
\* fails, the call does not raise: it returns a null answer, the citations
\* of the surviving chunks in rank order, their number, and an error field
\* that carries the failure reason.
C3_GenerationFailureDegrades ==
    (Retrieved /\ Survivors # {} /\ ~GeneratorUnavailable
       /\ request.event \in GenerationFailures) =>
        /\ Returned
        /\ Body["answer"] = <<>>
        /\ CitesSurvivors(Body["search_results"])
        /\ Body["chunks_retrieved"] = Cardinality(Survivors)
        /\ Body["error"] = "LLM generation failed: " \o LLMErrorMessage(request.event)
        /\ calls.llm = 1

C3_Witness ==
    /\ Retrieved /\ Survivors # {} /\ ~GeneratorUnavailable
    /\ request.event = "rate_limit"
    /\ Returned /\ calls.llm = 1 /\ "error" \in DOMAIN Body

\* C4: a chat call whose query is empty or whitespace-only ends with
\* ValueError before any external call: no embedding, no search, no
\* generation, and the Vector Index (its namespaces included) is unchanged.
C4_BlankQueryRejected ==
    [][(request'.op = "chat" /\ BlankQuery(request'.query) /\ nChat' = nChat + 1) =>
          /\ response'.raised = "ValueError"
          /\ calls'.embed = 0 /\ calls'.search = 0 /\ calls'.llm = 0
          /\ vectorIndex' = vectorIndex]_vars

\* a whitespace-only query on a project that has no namespace
C4_Witness ==
    /\ ChatServed /\ BlankQuery(request.query) /\ request.query # <<>>
    /\ response.raised = "ValueError"
    /\ CollectionName(request.project_id) \notin DOMAIN vectorIndex

\* C5: if the query embedding or the Vector Index search fails, the call
\* raises RuntimeError, returns no partial result and never invokes the
\* Answer Generator.
C5_RetrievalFailureIsFatal ==
    (ChatServed /\ ~BlankQuery(request.query) /\ request.event \in RetrievalFaults) =>
        /\ response.raised = "RuntimeError"
        /\ Body = EmptyMap
        /\ calls.llm = 0 /\ calls.prompt = <<>>

\* the search fails on a namespace that holds entries, generator available
C5_Witness ==
    /\ ChatServed /\ ~BlankQuery(request.query) /\ request.event = "chroma_query"
    /\ RequestEntries # <<>> /\ ~GeneratorUnavailable
    /\ response.raised = "RuntimeError"

\* positions of the search results that the threshold keeps
KeptResults ==
    {i \in 1..Len(calls.results) :
        Threshold > 0 => Clamped(calls.results[i].distance) >= Threshold}

\* the position in the search results of the j-th kept result
KeptAt(j) == CHOOSE i \in KeptResults : Cardinality({k \in KeptResults : k < i}) = j - 1

\* C6: retrieve_context returns exactly the rank-ordered subsequence of the
\* search results whose similarity s = clamp(1 - distance, 0, 1) is at least
\* the threshold, each annotated with s; with threshold 0 it returns every
\* search result in the same order.
C6_ThresholdFilter ==
    (Retrieved /\ calls.search = 1) =>
        /\ Len(calls.chunks) = Cardinality(KeptResults)
        /\ \A j \in 1..Len(calls.chunks) :
             LET r == calls.results[KeptAt(j)]
                 c == calls.chunks[j]
             IN  /\ c.chunk_id = r.chunk_id
                 /\ c.chunk_text = r.chunk_text
                 /\ c.metadata = r.metadata
                 /\ c.distance = r.distance
                 /\ c.similarity = Clamped(r.distance)
        /\ Threshold = 0 => Len(calls.chunks) = Len(calls.results)

\* a positive threshold keeps a result that lies exactly on it and drops
\* another one
C6_Witness ==
    /\ Retrieved /\ calls.search = 1 /\ Threshold > 0
    /\ \E i \in KeptResults : Clamped(calls.results[i].distance) = Threshold
    /\ KeptResults # 1..Len(calls.results)
    /\ Len(calls.chunks) = Cardinality(KeptResults)

\* the prompt parts of the context with index idx
ContextPart(idx) == {k \in 1..Len(calls.prompt) :
                       calls.prompt[k].kind = "context" /\ calls.prompt[k].idx = idx}

\* C7: the prompt sent to the Answer Generator contains every surviving
\* chunk exactly once in rank order, each tagged with its file id and
\* ordinal and with its similarity score, followed by the query.
C7_PromptTagsSimilarity ==
    calls.prompt # <<>> =>
        /\ \A j \in 1..Len(calls.chunks) :
             /\ Cardinality(ContextPart(j)) = 1
             /\ \A k \in ContextPart(j) :
                  /\ calls.prompt[k].text = calls.chunks[j].chunk_text
                  /\ calls.prompt[k + 1] =
                       [kind |-> "source",
                        file_id |-> calls.chunks[j].metadata["file_id"],
                        chunk_order |-> calls.chunks[j].metadata["chunk_order"]]
                  /\ calls.prompt[k + 2].kind = "similarity"
                  /\ calls.prompt[k + 2].value = calls.chunks[j].similarity
                  /\ \A j2 \in 1..Len(calls.chunks) : \A k2 \in ContextPart(j2) :
                       j < j2 => k < k2
        /\ \E k \in 1..Len(calls.prompt) :
             /\ calls.prompt[k] = [kind |-> "question", query |-> request.query]
             /\ \A j \in 1..Len(calls.chunks) : \A k1 \in ContextPart(j) : k1 < k

\* C7 without the similarity tag: every surviving chunk appears once, in
\* rank order, with its file id and ordinal, before the query.
PromptCitesChunks ==
    calls.prompt # <<>> =>
        /\ \A j \in 1..Len(calls.chunks) :
             /\ Cardinality(ContextPart(j)) = 1
             /\ \A k \in ContextPart(j) :
                  /\ calls.prompt[k].text = calls.chunks[j].chunk_text
                  /\ calls.prompt[k + 1] =
                       [kind |-> "source",
                        file_id |-> calls.chunks[j].metadata["file_id"],
                        chunk_order |-> calls.chunks[j].metadata["chunk_order"]]
                  /\ \A j2 \in 1..Len(calls.chunks) : \A k2 \in ContextPart(j2) :
                       j < j2 => k < k2
        /\ \E k \in 1..Len(calls.prompt) :
             /\ calls.prompt[k] = [kind |-> "question", query |-> request.query]
             /\ \A j \in 1..Len(calls.chunks) : \A k1 \in ContextPart(j) : k1 < k

\* the citations a result carries
CitationsIn(body) ==
    IF "search_results" \in DOMAIN body THEN body["search_results"] ELSE body["sources"]

\* C8: format_sources maps the n surviving chunks to n citations in the same
\* order; the i-th has source_index i, the file id and ordinal of the i-th
\* chunk's metadata, its similarity, and as excerpt the whole text when it
\* has at most ExcerptLen characters, else its first ExcerptLen characters
\* followed by "...".
C8_FormatSources ==
    (Retrieved /\ Returned /\ calls.chunks # <<>>) =>
        /\ Len(CitationsIn(Body)) = Len(calls.chunks)
        /\ \A i \in 1..Len(calls.chunks) :
             LET chunk == calls.chunks[i]
                 text == chunk.chunk_text
                 cite == CitationsIn(Body)[i]
             IN  /\ cite.source_index = i
                 /\ cite.file_id = chunk.metadata["file_id"]
                 /\ cite.chunk_order = chunk.metadata["chunk_order"]
                 /\ cite.similarity = chunk.similarity
                 /\ Len(text) <= ExcerptLen => cite.chunk_text = text
                 /\ Len(text) > ExcerptLen =>
                      /\ Len(cite.chunk_text) = ExcerptLen + 3
                      /\ \A k \in 1..ExcerptLen : cite.chunk_text[k] = text[k]
                      /\ \A k \in 1..3 : cite.chunk_text[ExcerptLen + k] = "."

\* the citations of a text of exactly ExcerptLen characters and of a longer
\* one
C8_Witness ==
    /\ Retrieved /\ Returned /\ Len(calls.chunks) >= 2
    /\ \E i \in 1..Len(calls.chunks) : Len(calls.chunks[i].chunk_text) = ExcerptLen
    /\ \E i \in 1..Len(calls.chunks) :
         /\ Len(calls.chunks[i].chunk_text) > ExcerptLen
         /\ Len(CitationsIn(Body)[i].chunk_text) = ExcerptLen + 3

(***************************************************************************)
(* Properties of ingestion, stated on the stores and on the process        *)
(* request served last.                                                    *)
(***************************************************************************)
\* positions of the Chunk Store records of a project record and a file
RecordsOf(oid, file_id) ==
    {i \in 1..Len(chunkStore) :
        chunkStore[i].chunk_project_id = oid /\ chunkStore[i].file_id = file_id}

\* C9: after any sequence of ingestions, the Chunk Store records of each
\* (project, file) carry ordinals that are unique within the file and form
\* exactly the set 1..N.
C9_OrdinalsUniquePerFile ==
    \A p \in 1..Len(projects), f \in Files :
        LET recs == RecordsOf(projects[p].oid, f)
            ordinals == {chunkStore[i].chunk_order : i \in recs}
        IN  /\ \A i, j \in recs :
                 chunkStore[i].chunk_order = chunkStore[j].chunk_order => i = j
            /\ ordinals = 1..Cardinality(recs)

\* the vectors a process request hands to the Vector Index: one per
\* non-blank chunk text, in order
SuppliedVectors(chunks) ==
    LET texts == SelectSeq([i \in 1..Len(chunks) |-> chunks[i].page_content],
                           LAMBDA t : ~BlankQuery(t))
    IN  [i \in 1..Len(texts) |-> Encode(texts[i])]

\* a process request whose upsert into the Vector Index went through
Upserted ==
    /\ request.op = "process"
    /\ response.status = 200
    /\ request.fault = "none"
    /\ response.chromadb_count > 0

\* C10: after a file is upserted into a project (again), the namespace holds
\* exactly one entry per (file_id, ordinal) of the upsert, and that entry
\* carries the vector and the text the upsert supplied.
C10_UpsertOverwrites ==
    Upserted =>
        LET entries == vectorIndex[CollectionName(request.project_id)]
            vectors == SuppliedVectors(request.chunks)
            n == IF Len(vectors) < Len(request.chunks) THEN Len(vectors)
                 ELSE Len(request.chunks)
        IN  \A idx \in 1..n :
               LET at == {i \in 1..Len(entries) :
                            /\ entries[i].metadata["file_id"] = request.file_id
                            /\ entries[i].metadata["chunk_order"] = idx}
               IN  /\ Cardinality(at) = 1
                   /\ \A i \in at :
                        /\ entries[i].embedding = vectors[idx]
                        /\ entries[i].document = request.chunks[idx].page_content

(***************************************************************************)
(* Properties of the direct calls of the Vector Index, stated on the call  *)
(* served last and on the index before and after it.                       *)
(***************************************************************************)
\* the entries of a project's namespace in an index
NamespaceOf(index, project_id) ==
    IF CollectionName(project_id) \in DOMAIN index
    THEN index[CollectionName(project_id)] ELSE <<>>

\* positions of the entries of a file and an ordinal in a list of entries
EntriesAt(entries, file_id, idx) ==
    {i \in 1..Len(entries) :
        /\ entries[i].metadata["file_id"] = file_id
        /\ entries[i].metadata["chunk_order"] = idx}

\* the (file, ordinal) entries of a list of entries, as a set of records
EntrySetAt(entries, file_id, idx) ==
    {entries[i] : i \in EntriesAt(entries, file_id, idx)}

\* the pairs an upsert considers: positions that have a chunk and a vector
PairsConsidered(req) == {i \in 1..Len(req.chunks) : i <= Len(req.embeddings)}

\* the considered pairs whose vector has the configured dimension
PairsValid(req) ==
    {i \in PairsConsidered(req) : Len(req.embeddings[i]) = EMBEDDING_DIMENSION}

\* positions of the upsert that are not stored: beyond the shorter list, or
\* with a vector of another dimension
PairsRejected(req) ==
    (1..(Len(req.chunks) + Len(req.embeddings))) \ PairsValid(req)

\* the step is a served call of the operation op
Served(op) == request'.op = op /\ nOps' = nOps + 1

\* after the upsert req the entries after hold the valid pairs of the
\* request, and for the rejected positions what the entries before held
UpsertStored(req, before, after) ==
    /\ \A i \in PairsValid(req) :
         LET at == EntriesAt(after, req.file_id, i) IN
         /\ Cardinality(at) = 1
         /\ \A k \in at : /\ after[k].embedding = req.embeddings[i]
                           /\ after[k].document = req.chunks[i].page_content
    /\ \A i \in PairsRejected(req) :
         EntrySetAt(after, req.file_id, i) = EntrySetAt(before, req.file_id, i)

\* an upsert with m > 0 chunks and n > 0 vectors, m # n
MismatchedUpsert(req) ==
    /\ Len(req.chunks) > 0 /\ Len(req.embeddings) > 0
    /\ Len(req.chunks) # Len(req.embeddings)

\* C11: an upsert with m > 0 chunks and n > 0 vectors, m # n, does not fail;
\* it stores each of the first min(m, n) pairs whose vector has the
\* configured dimension, returns exactly the number of pairs it stored, and
\* stores no pair beyond min(m, n) and no pair of another dimension.
C11_TruncatedUpsert ==
    [][(Served("add_chunks") /\ MismatchedUpsert(request')) =>
          /\ response'.raised = "none"
          /\ response'.count = Cardinality(PairsValid(request'))
          /\ UpsertStored(request', NamespaceOf(vectorIndex, request'.project_id),
                          NamespaceOf(vectorIndex', request'.project_id))]_vars

\* the truncation policy of C11 for an upsert none of whose (file, ordinal)
\* pairs has an entry in the namespace already
TruncatedUpsertOfNewFile ==
    [][(/\ Served("add_chunks") /\ MismatchedUpsert(request')
        /\ \A i \in PairsValid(request') :
              EntriesAt(NamespaceOf(vectorIndex, request'.project_id),
                        request'.file_id, i) = {}) =>
          /\ response'.raised = "none"
          /\ response'.count = Cardinality(PairsValid(request'))
          /\ UpsertStored(request', NamespaceOf(vectorIndex, request'.project_id),
                          NamespaceOf(vectorIndex', request'.project_id))]_vars

\* every entry of every namespace has a vector of the configured dimension
DimensionInvariant ==
    \A name \in DOMAIN vectorIndex : \A i \in 1..Len(vectorIndex[name]) :
        Len(vectorIndex[name][i].embedding) = EMBEDDING_DIMENSION

\* the considered pairs of an upsert whose vector has another dimension
PairsMismatched(req) == PairsConsidered(req) \ PairsValid(req)

C13_InvalidQueryRejected ==
    [][(Served("search_similar")
        /\ Len(request'.query_embedding) # EMBEDDING_DIMENSION) =>
          /\ response'.raised = "ValueError"
          /\ response'.client_calls = <<>>
          /\ response'.results = <<>>
          /\ vectorIndex' = vectorIndex]_vars

\* a query vector that is too short was rejected for a project that has no
\* namespace, and none was created
C13_Witness ==
    /\ request.op = "search_similar"
    /\ request.query_embedding # <<>>
    /\ Len(request.query_embedding) # EMBEDDING_DIMENSION
    /\ response.raised = "ValueError"
    /\ CollectionName(request.project_id) \notin DOMAIN vectorIndex

\* the search served last had a query vector of the configured dimension
ValidSearch ==
    /\ request.op = "search_similar"
    /\ Len(request.query_embedding) = EMBEDDING_DIMENSION

\* the entries of the searched namespace
SearchedEntries == NamespaceOf(vectorIndex, request.project_id)

\* positions of the entries the file filter of the search admits
Matching ==
    {i \in 1..Len(SearchedEntries) :
        request.file_id = "" \/ SearchedEntries[i].metadata["file_id"] = request.file_id}

\* the distance of an entry from the query vector of the search
QueryDistance(entry) ==
    LET q == request.query_embedding
        d == [i \in 1..Len(q) |-> entry.embedding[i] - q[i]]
    IN  SumOf([i \in 1..Len(q) |-> d[i] * d[i]], Len(q))

\* positions of the entries a list of results returns
ReturnedEntries(results) ==
    {i \in 1..Len(SearchedEntries) :
        \E j \in 1..Len(results) : results[j].chunk_id = SearchedEntries[i].id}

\* C14: a search with a valid query vector returns without error exactly
\* min(top_k, M) results in ascending order of distance, M being the number
\* of entries of the namespace that the file filter admits (all of them
\* without a filter); the results are distinct matching entries, none of the
\* matching entries left out is nearer than a returned one (the filter comes
\* before the truncation), and with M = 0 the result is the empty list.
C14_SearchTopK ==
    ValidSearch =>
        LET results == response.results
            M == Cardinality(Matching)
        IN  /\ response.raised = "none"
            /\ Len(results) = (IF request.top_k < M THEN request.top_k ELSE M)
            /\ \A j \in 1..(Len(results) - 1) : results[j].distance <= results[j + 1].distance
            /\ ReturnedEntries(results) \subseteq Matching
            /\ Cardinality(ReturnedEntries(results)) = Len(results)
            /\ \A j \in 1..Len(results) : \A i \in Matching :
                 SearchedEntries[i].id = results[j].chunk_id =>
                    /\ results[j].distance = QueryDistance(SearchedEntries[i])
                    /\ results[j].chunk_text = SearchedEntries[i].document
                    /\ results[j].metadata = SearchedEntries[i].metadata
            /\ \A i \in Matching \ ReturnedEntries(results) : \A j \in 1..Len(results) :
                 results[j].distance <= QueryDistance(SearchedEntries[i])
            /\ M = 0 => results = <<>>

\* a search filtered by file returned the nearest entry of that file although
\* an entry of another file of the namespace is nearer to the query
C14_Witness ==
    /\ ValidSearch /\ request.file_id # "" /\ request.top_k = 1
    /\ Cardinality(Matching) >= 2
    /\ Len(response.results) = 1
    /\ \E i \in (1..Len(SearchedEntries)) \ Matching :
         QueryDistance(SearchedEntries[i]) < response.results[1].distance

\* positions of the entries of a file in a list of entries
EntriesOfFile(entries, file_id) ==
    {i \in 1..Len(entries) : entries[i].metadata["file_id"] = file_id}

\* the entries of the other files in a list of entries, as a set
EntriesOfOtherFiles(entries, file_id) ==
    {entries[i] : i \in (1..Len(entries)) \ EntriesOfFile(entries, file_id)}

\* C15: delete_by_file(project, file), when the index does not fail, removes
\* exactly the entries of the project whose file id is file and returns
\* their number; for a file without entries, and when called again right
\* after itself, it returns 0 and raises no error; the entries of the other
\* files of the project and all entries of the other projects are unchanged.
C15_DeleteByFile ==
    [][(Served("delete_chunks_by_file") /\ request'.fault = "none") =>
          LET req == request'
              before == NamespaceOf(vectorIndex, req.project_id)
              after == NamespaceOf(vectorIndex', req.project_id)
          IN  /\ response'.raised = "none"
              /\ response'.count = Cardinality(EntriesOfFile(before, req.file_id))
              /\ EntriesOfFile(after, req.file_id) = {}
              /\ EntriesOfOtherFiles(after, req.file_id) = EntriesOfOtherFiles(before, req.file_id)
              /\ Len(after) = Len(before) - response'.count
              /\ \A p \in Projects \ {req.project_id} :
                   NamespaceOf(vectorIndex', p) = NamespaceOf(vectorIndex, p)
              /\ (/\ request.op = "delete_chunks_by_file"
                  /\ request.project_id = req.project_id
                  /\ request.file_id = req.file_id
                  /\ response.raised = "none") => response'.count = 0]_vars

\* a deletion removed the two entries of a file and left the entries of
\* another file of the project and of another project in place
C15_Witness ==
    /\ request.op = "delete_chunks_by_file" /\ request.fault = "none"
    /\ response.raised = "none" /\ response.count = 2
    /\ NamespaceOf(vectorIndex, request.project_id) # <<>>
    /\ \E p \in Projects \ {request.project_id} : NamespaceOf(vectorIndex, p) # <<>>

\* no deletion finds nothing to delete right after a deletion of the same
\* file that removed entries (refuted: the repeated call of C15 occurs)
NoRepeatedDelete ==
    [][~(/\ Served("delete_chunks_by_file")
         /\ request.op = "delete_chunks_by_file"
         /\ request.project_id = request'.project_id
         /\ request.file_id = request'.file_id
         /\ response.raised = "none" /\ response.count > 0
         /\ response'.raised = "none" /\ response'.count = 0)]_vars

(***************************************************************************)
(* Properties of the direct calls of the Chunk Store.                      *)
(***************************************************************************)
\* every chunk of the list has a text of at least one character
AllTextsNonEmpty(chunks) == \A i \in 1..Len(chunks) : chunks[i].page_content # <<>>

\* the records appended to the Chunk Store by the step
NewRecords == [i \in 1..(Len(chunkStore') - Len(chunkStore)) |-> chunkStore'[Len(chunkStore) + i]]

\* the step left the records the Chunk Store held in place
RecordsKept ==
    /\ Len(chunkStore') >= Len(chunkStore)
    /\ \A i \in 1..Len(chunkStore) : chunkStore'[i] = chunkStore[i]

\* C16: a save of N >= 1 chunks with non-empty texts, when the storage does
\* not fail, persists exactly N records with the ordinals 1..N in input
\* order and returns N; the record with ordinal i carries embeddings[i] when
\* embeddings are supplied and i is within the list, and no embedding
\* otherwise (1-based positions).
C16_SaveChunks ==
    [][(/\ Served("save_chunks") /\ request'.fault = "none"
        /\ request'.chunks # <<>> /\ AllTextsNonEmpty(request'.chunks)) =>
          LET req == request'
              N == Len(req.chunks)
          IN  /\ response'.raised = "none"
              /\ response'.count = N
              /\ RecordsKept
              /\ Len(NewRecords) = N
              /\ \A i \in 1..N :
                   /\ NewRecords[i].chunk_order = i
                   /\ NewRecords[i].chunk_text = req.chunks[i].page_content
                   /\ NewRecords[i].chunk_project_id = req.oid
                   /\ NewRecords[i].file_id = req.file_id
                   /\ NewRecords[i].metadata = req.chunks[i].metadata
                   /\ i <= Len(req.embeddings) => NewRecords[i].embedding = req.embeddings[i]
                   /\ i > Len(req.embeddings) => NewRecords[i].embedding = <<>>]_vars

\* two chunks were saved with a list of one vector: the first record carries
\* it, the second carries none
C16_Witness ==
    /\ request.op = "save_chunks" /\ response.raised = "none" /\ response.count = 2
    /\ Len(request.embeddings) = 1
    /\ Len(chunkStore) >= 3
    /\ chunkStore[Len(chunkStore) - 1].embedding = request.embeddings[1]
    /\ chunkStore[Len(chunkStore) - 1].chunk_order = 1
    /\ chunkStore[Len(chunkStore)].embedding = <<>>
    /\ chunkStore[Len(chunkStore)].chunk_order = 2

ProcessStep == request'.op = "process" /\ nIngest' = nIngest + 1

\* the request names a file that exists and splits into at least one chunk,
\* one of them with a text that is not blank
Ingestible(req) ==
    /\ req.file_id # "" /\ req.chunks # <<>>
    /\ \E i \in 1..Len(req.chunks) : ~BlankQuery(req.chunks[i].page_content)

\* the step appended the chunks of the request to the Chunk Store, with the
\* ordinals 1..N in input order
ChunksPersisted(req) ==
    /\ RecordsKept
    /\ Len(NewRecords) = Len(req.chunks)
    /\ \A i \in 1..Len(req.chunks) :
         /\ NewRecords[i].chunk_order = i
         /\ NewRecords[i].chunk_text = req.chunks[i].page_content
         /\ NewRecords[i].file_id = req.file_id
         /\ \E p \in 1..Len(projects') :
              /\ projects'[p].project_id = req.project_id
              /\ projects'[p].oid = NewRecords[i].chunk_project_id

\* C18: when the generation of the embeddings fails in the ingestion of a
\* file of N >= 1 chunks, the ingestion succeeds: the N chunks are persisted
\* with the ordinals 1..N and without embedding, nothing is written to the
\* Vector Index, and the result reports N chunks saved and 0 embeddings.
C18_EmbeddingFailureNonFatal ==
    [][(ProcessStep /\ Ingestible(request') /\ request'.fault = "embed") =>
          /\ response'.status = 200
          /\ response'.signal = "process success"
          /\ response'.chunks_count = Len(request'.chunks)
          /\ response'.saved_count = Len(request'.chunks)
          /\ response'.embeddings_generated = 0
          /\ response'.chromadb_count = 0 /\ ~response'.chromadb_stored
          /\ ChunksPersisted(request')
          /\ \A i \in 1..Len(NewRecords) : NewRecords[i].embedding = <<>>
          /\ vectorIndex' = vectorIndex]_vars

\* an ingestion of two chunks whose embedding failed: two records without
\* embedding were saved and the project has no namespace in the index
C18_Witness ==
    /\ request.op = "process" /\ request.fault = "embed"
    /\ Len(request.chunks) = 2
    /\ response.status = 200 /\ response.saved_count = 2
    /\ response.embeddings_generated = 0
    /\ Len(chunkStore) >= 2
    /\ chunkStore[Len(chunkStore)].embedding = <<>>
    /\ chunkStore[Len(chunkStore)].chunk_order = 2
    /\ CollectionName(request.project_id) \notin DOMAIN vectorIndex

\* the failures of the write to the Vector Index
IndexWriteFaults == {"chroma_get", "chroma_add"}

\* C19: when the write to the Vector Index fails in an ingestion, the Chunk
\* Store records written by the ingestion (and all earlier ones) stay as
\* written, the failure does not reach the caller, and the result reports
\* success with the number of chunks saved and zero entries stored in the
\* Vector Index, whose entries are unchanged.
C19_IndexFailureSwallowed ==
    [][(ProcessStep /\ Ingestible(request') /\ request'.fault \in IndexWriteFaults) =>
          /\ response'.status = 200
          /\ response'.signal = "process success"
          /\ response'.saved_count = Len(request'.chunks)
          /\ response'.chromadb_count = 0 /\ ~response'.chromadb_stored
          /\ ChunksPersisted(request')
          /\ \A p \in Projects : NamespaceOf(vectorIndex', p) = NamespaceOf(vectorIndex, p)]_vars

\* an ingestion whose Collection.add failed: its two records, with their
\* embeddings, are in the Chunk Store and the namespace has no entry of the
\* file
C19_Witness ==
    /\ request.op = "process" /\ request.fault = "chroma_add"
    /\ Len(request.chunks) = 2
    /\ response.status = 200 /\ response.saved_count = 2 /\ response.chromadb_count = 0
    /\ response.embeddings_generated = 2
    /\ Len(chunkStore) >= 2
    /\ chunkStore[Len(chunkStore)].embedding # <<>>
    /\ chunkStore[Len(chunkStore)].file_id = request.file_id
    /\ EntriesOfFile(NamespaceOf(vectorIndex, request.project_id), request.file_id) = {}

(***************************************************************************)
(* The first ingestion of a file, and a search right after it.             *)
(***************************************************************************)
\* positions of the records of a project and a file in a chunk collection
RecordsIn(store, projs, project_id, file_id) ==
    {i \in 1..Len(store) :
        /\ store[i].file_id = file_id
        /\ \E p \in 1..Len(projs) :
             projs[p].project_id = project_id /\ projs[p].oid = store[i].chunk_project_id}

\* the request ingests, without any failure, a file whose chunks are all
\* non-blank and of which neither store holds anything for the project
FirstIngestion(req) ==
    /\ req.file_id # "" /\ req.chunks # <<>> /\ req.fault = "none"
    /\ \A i \in 1..Len(req.chunks) : ~BlankQuery(req.chunks[i].page_content)
    /\ RecordsIn(chunkStore, projects, req.project_id, req.file_id) = {}
    /\ EntriesOfFile(NamespaceOf(vectorIndex, req.project_id), req.file_id) = {}

\* the results are in ascending order of distance
Ascending(results) ==
    \A j \in 1..(Len(results) - 1) : results[j].distance <= results[j + 1].distance

\* C20: after the ingestion, without failure, of a file of N non-blank
\* chunks of which the project held nothing, the Chunk Store holds exactly N
\* records of the file with the ordinals 1..N, the Vector Index holds
\* exactly N entries of the file with the same ordinals and texts, and a
\* search of the project right after it with top_k = k <= N, with or without
\* the file as filter, returns exactly k results in ascending order of
\* distance.
C20_IngestThenSearch ==
    [][(ProcessStep /\ FirstIngestion(request')) =>
          LET req == request'
              N == Len(req.chunks)
              recs == RecordsIn(chunkStore', projects', req.project_id, req.file_id)
              entries == NamespaceOf(vectorIndex', req.project_id)
              ofFile == EntriesOfFile(entries, req.file_id)
          IN  /\ response'.status = 200
              /\ Cardinality(recs) = N
              /\ {chunkStore'[i].chunk_order : i \in recs} = 1..N
              /\ Cardinality(ofFile) = N
              /\ \A n \in 1..N :
                   /\ Cardinality(EntriesAt(entries, req.file_id, n)) = 1
                   /\ \A i \in EntriesAt(entries, req.file_id, n) :
                        /\ entries[i].document = req.chunks[n].page_content
                        /\ Len(entries[i].embedding) = EMBEDDING_DIMENSION
                        /\ \E r \in recs : /\ chunkStore'[r].chunk_order = n
                                            /\ chunkStore'[r].chunk_text = entries[i].document
                                            /\ chunkStore'[r].embedding = entries[i].embedding
              /\ \A k \in 1..N : \A q \in {Directions[1], Directions[3]} :
                   \A filter \in {"", req.file_id} :
                     LET found == search_similar(vectorIndex', req.project_id, q, k,
                                                 filter, "none")
                     IN  /\ found.raised = "none"
                         /\ Len(found.results) = k
                         /\ Ascending(found.results)
                         /\ filter # "" =>
                              \A j \in 1..k : found.results[j].metadata["file_id"] = filter]_vars

\* the second file of a project was ingested: the project's namespace holds
\* the two entries of each file, and the Chunk Store their four records
C20_Witness ==
    /\ request.op = "process" /\ request.fault = "none" /\ response.status = 200
    /\ Len(request.chunks) = 2 /\ response.chromadb_count = 2
    /\ Cardinality(RecordsIn(chunkStore, projects, request.project_id, request.file_id)) = 2
    /\ Cardinality(EntriesOfFile(NamespaceOf(vectorIndex, request.project_id),
                                 request.file_id)) = 2
    /\ Len(NamespaceOf(vectorIndex, request.project_id)) = 4

(***************************************************************************)
(* Direct calls of EmbeddingService.generate_embeddings_batch              *)
(***************************************************************************)
\* longest list of texts handed to one call
MaxTexts == 4
\* largest EMBEDDING_BATCH_SIZE tried
MaxBatchSize == 3

\* the entries of a list of texts: empty, blank, and three words
EmbedTexts == { <<>>, TextSpaces, TextCat, TextDog, TextOwl }
TextLists == UNION { [1..n -> EmbedTexts] : n \in 0..MaxTexts }
BatchSizes == 1..MaxBatchSize

\* the calls to be made: a list of texts, the configured
\* EMBEDDING_BATCH_SIZE and whether model.encode fails
EmbedInputs ==
    [op : {"embed_input"}, texts : TextLists, batch_size : BatchSizes,
     modelFails : BOOLEAN]

InitEmbed ==
    /\ projects = <<>>
    /\ chunkStore = <<>>
    /\ vectorIndex = EmptyMap
    /\ settings = DefaultSettings
    /\ llm_client = FALSE
    /\ request \in EmbedInputs
    /\ response = [status |-> 0]
    /\ calls = NoCalls
    /\ nIngest = 0
    /\ nChat = 0
    /\ nOps = 0
    /\ InitRequests

\* EmbeddingService().generate_embeddings_batch(texts)
EmbedMany ==
    /\ request.op = "embed_input"
    /\ LET out == generate_embeddings_batch(request.texts, request.batch_size,
                                            request.modelFails) IN
        response' = [raised |-> out.raised, vectors |-> out.vectors]
    /\ request' = [request EXCEPT !.op = "embed_many"]
    /\ UNCHANGED <<projects, chunkStore, vectorIndex, settings, llm_client, calls,
                   nIngest, nChat, nOps, requestVars>>

NextEmbed == EmbedMany

SpecEmbed == InitEmbed /\ [][NextEmbed]_vars

(***************************************************************************)
(* C21: one vector per valid text, in order, whatever the batch size       *)
(***************************************************************************)
\* a non-empty text with a character that is not whitespace
ValidText(t) == \E i \in 1..Len(t) : t[i] # Space

ValidPositions(texts) == {i \in 1..Len(texts) : ValidText(texts[i])}

\* the vectors of the valid texts among the first n, one by one and in order
RECURSIVE VectorsOfValid(_, _)
VectorsOfValid(texts, n) ==
    IF n = 0 THEN <<>>
    ELSE VectorsOfValid(texts, n - 1)
           \o (IF ValidText(texts[n]) THEN <<Encode(texts[n])>> ELSE <<>>)

EmbedServed == request.op = "embed_many" /\ response.raised = "none"

ModelCache ==
    [model_instance |-> model_instance, model_name |-> model_name,
     modelLoads |-> modelLoads]

\* a request for a project arrives
Receive(r, project_id) ==
    /\ pc[r].at = "idle"
    /\ pc' = [pc EXCEPT ![r] = [@ EXCEPT !.at = "find_one", !.project_id = project_id]]
    /\ UNCHANGED <<projects, chunkStore, vectorIndex, settings, llm_client, request,
                   response, calls, nIngest, nChat, nOps,
                   model_instance, model_name, modelLoads>>

\* get_project_or_create_one up to the completion of "await find_one"
FindOne(r) ==
    /\ pc[r].at = "find_one"
    /\ LET record == find_one(projects, pc[r].project_id) IN
        pc' = [pc EXCEPT ![r] =
                  IF record = <<>>
                  THEN [@ EXCEPT !.at = "insert_one"]
                  ELSE [@ EXCEPT !.at = "load_model", !.oid = record[1].oid]]
    /\ UNCHANGED <<projects, chunkStore, vectorIndex, settings, llm_client, request,
                   response, calls, nIngest, nChat, nOps,
                   model_instance, model_name, modelLoads>>

\* get_project_or_create_one from "record is None" to the completion of
\* "await insert_one"
InsertOne(r) ==
    /\ pc[r].at = "insert_one"
    /\ LET out == create_project(projects, pc[r].project_id) IN
        /\ projects' = out.projects
        /\ pc' = [pc EXCEPT ![r] = [@ EXCEPT !.at = "load_model", !.oid = out.oid]]
    /\ UNCHANGED <<chunkStore, vectorIndex, settings, llm_client, request,
                   response, calls, nIngest, nChat, nOps,
                   model_instance, model_name, modelLoads>>

\* EmbeddingService(): __init__ calls _load_model and holds no await
Construct(r, loadFails) ==
    /\ pc[r].at = "load_model"
    /\ LET out == _load_model(ModelCache, EMBEDDING_MODEL, loadFails) IN
        /\ model_instance' = out.cache.model_instance
        /\ model_name' = out.cache.model_name
        /\ modelLoads' = out.cache.modelLoads
        /\ pc' = [pc EXCEPT ![r] =
                     [@ EXCEPT !.at = "done", !.model = out.model, !.raised = out.raised]]
    /\ UNCHANGED <<projects, chunkStore, vectorIndex, settings, llm_client, request,
                   response, calls, nIngest, nChat, nOps>>

NextRequests ==
    \E r \in Requests :
        \/ \E project_id \in Projects : Receive(r, project_id)
        \/ FindOne(r)
        \/ InsertOne(r)
        \/ \E loadFails \in BOOLEAN : Construct(r, loadFails)

SpecRequests == Init /\ [][NextRequests]_vars

(***************************************************************************)
(* C22: the project identifier is unique in the project store              *)
(***************************************************************************)
\* the requests that hold a project
Holding(r) == pc[r].at \in {"load_model", "done"}

\* C22: whatever the interleaving of concurrent requests that reference the
\* same unknown project identifier, the project store holds one record per
\* identifier and all those requests obtain the same surrogate identity.
C22_ProjectIdUnique ==
    /\ \A i, j \in 1..Len(projects) :
           projects[i].project_id = projects[j].project_id => i = j
    /\ \A r1, r2 \in Requests :
           (Holding(r1) /\ Holding(r2) /\ pc[r1].project_id = pc[r2].project_id)
               => pc[r1].oid = pc[r2].oid

\* two requests for the unknown project p1 interleave at their awaits: both
\* find nothing, both insert
C22_Raced ==
    /\ Len(projects) = 2
    /\ projects[1].project_id = projects[2].project_id
    /\ projects[1].oid # projects[2].oid

(***************************************************************************)
(* C23: one model load per model name                                      *)
(***************************************************************************)
\* the providers constructed so far
Constructed(r) == pc[r].at = "done" /\ pc[r].raised = "none"

\* request r constructs its provider in this step
Constructs(r) == pc[r].at = "load_model" /\ pc'[r].at = "done"

SharedModel ==
    /\ modelLoads.loaded <= 1
    /\ \A r \in Requests :
           Constructed(r) => pc[r].model # NoModel /\ pc[r].model = model_instance

ConstructionStep ==
    \A r \in Requests : Constructs(r) =>
        \* a failed load raises, leaves the cache alone and is tried once
        /\ pc'[r].raised # "none" =>
               /\ pc'[r].raised = "RuntimeError"
               /\ pc'[r].model = NoModel
               /\ model_instance' = model_instance
               /\ model_name' = model_name
               /\ modelLoads' = [modelLoads EXCEPT !.attempted = @ + 1]
        \* the first construction that succeeds loads the model
        /\ (pc'[r].raised = "none" /\ model_instance = NoModel) =>
               /\ modelLoads' = [attempted |-> modelLoads.attempted + 1, loaded |-> 1]
               /\ model_name' = EMBEDDING_MODEL
               /\ pc'[r].model = model_instance'
        \* every later one takes the cached model without loading
        /\ model_instance # NoModel =>
               /\ pc'[r].raised = "none"
               /\ modelLoads' = modelLoads
               /\ model_instance' = model_instance
               /\ pc'[r].model = model_instance

\* C23: over any sequence of provider constructions for one model name the
\* model is loaded exactly once, by the first construction whose load succeeds,
\* and every provider references that model; a construction whose load fails
\* raises RuntimeError, leaves the cache as it was and calls the loader once.
C23_LoadedOnce == []SharedModel /\ [][ConstructionStep]_vars

\* the first construction failed to load, the second loaded, and its
\* provider holds the cached model
C23_Witness ==
    /\ \A r \in Requests : pc[r].at = "done"
    /\ \E r \in Requests : pc[r].raised = "RuntimeError"
    /\ \E r \in Requests : Constructed(r) /\ pc[r].model = model_instance
    /\ modelLoads = [attempted |-> 2, loaded |-> 1]

(***************************************************************************)
(* C24: requests racing to initialise the Embedding Provider               *)
(***************************************************************************)
\* the model instances something still refers to
Retained == ({model_instance} \cup {pc[r].model : r \in Requests}) \ {NoModel}

AllFinished == \A r \in Requests : pc[r].at = "done"

\* C24: when requests race to initialise the Embedding Provider, at most one
\* model instance is retained, exactly one once all have finished and one of
\* them succeeded, and no provider uses an instance other than the cached one.
C24_OneInstanceRetained ==
    /\ Cardinality(Retained) <= 1
    /\ \A r \in Requests : pc[r].model \in {NoModel, model_instance}
    /\ (AllFinished /\ \E r \in Requests : Constructed(r)) => Retained = {model_instance}

\* two requests that raced (each inserted a record for the same project)
\* have both finished and share the cached model
C24_Witness ==
    /\ C22_Raced
    /\ \A r \in Requests : Constructed(r) /\ pc[r].model = model_instance
    /\ model_instance # NoModel

(***************************************************************************)
(* POST /chat/{project_id} (chat_endpoint)                                 *)
(***************************************************************************)
\* ResponseSignal
PROCESS_SUCCESS == "process success"
PROCESS_FAILED == "process failed"
DegradedWarning == "LLM generation failed, returning search results only"

\* chat_endpoint, the response built from result = generate_answer(...)
ChatResponse(out) ==
    IF out.raised = "ValueError"
    THEN [status |-> 400, signal |-> PROCESS_FAILED, error |-> "Query cannot be empty"]
    ELSE IF out.raised = "RuntimeError"
    THEN [status |-> 500, signal |-> PROCESS_FAILED, error |-> "RAG service error"]
    ELSE IF "error" \in DOMAIN out.body
    THEN [status           |-> 200,
          signal           |-> PROCESS_SUCCESS,
          answer           |-> <<>>,
          search_results   |-> DictGet(out.body, "search_results", <<>>),
          sources          |-> DictGet(out.body, "sources", <<>>),
          query            |-> out.body.query,
          chunks_retrieved |-> out.body.chunks_retrieved,
          warning          |-> DegradedWarning]
    ELSE [status           |-> 200,
          signal           |-> PROCESS_SUCCESS,
          answer           |-> out.body.answer,
          sources          |-> DictGet(out.body, "sources", <<>>),
          query            |-> out.body.query,
          chunks_retrieved |-> out.body.chunks_retrieved]

\* chat_endpoint; st holds the stores, app the settings and the cached
\* OpenAI client
chat_endpoint(st, app, project_id, query, file_id, top_k, event) ==
    IF IsBlank(query)
    THEN [st |-> st, client_instance |-> app.llm_client, calls |-> NoCalls,
          response |-> [status |-> 400, signal |-> PROCESS_FAILED,
                        error |-> "Query cannot be empty"]]
    ELSE
    LET project == get_project_or_create_one(st.projects, project_id)
        llmInit == IF event = "llm_client_fails" THEN "client_fails"
                   ELSE IF event = "llm_raises" THEN "raises" ELSE "ok"
        rag == RAGServiceInit(app.settings.OPENAI_API_KEY, app.llm_client, llmInit)
        \* result = rag_service.generate_answer(...), computed once
        served ==
            {[st |-> [st EXCEPT !.projects = project.projects, !.vectorIndex = out.index],
              client_instance |-> rag.client_instance,
              calls |-> out.calls,
              response |-> ChatResponse(out)] :
                out \in {generate_answer(st.vectorIndex, rag,
                                         app.settings.RAG_SIMILARITY_THRESHOLD,
                                         project_id, Strip(query), file_id, top_k,
                                         IF event \in ChatFaults THEN event ELSE "none",
                                         IF event \in LLMOutcomes THEN event ELSE "ok")}}
    IN  CHOOSE r \in served : TRUE

\* POST /chat/{project_id}
ChatEndpoint(project_id, query, file_id, top_k, event) ==
    /\ nChat < MaxChat
    /\ \E out \in {chat_endpoint(Stores, [settings |-> settings, llm_client |-> llm_client],
                                   project_id, query, file_id, top_k, event)} :
        /\ projects' = out.st.projects
        /\ vectorIndex' = out.st.vectorIndex
        /\ llm_client' = out.client_instance
        /\ response' = out.response
        /\ calls' = out.calls
    /\ request' = [op |-> "chat_endpoint", project_id |-> project_id, query |-> query,
                   file_id |-> file_id, top_k |-> top_k, event |-> event]
    /\ nChat' = nChat + 1
    /\ UNCHANGED <<chunkStore, settings, nIngest, nOps, requestVars>>

NextChatEndpoint ==
    \E project_id \in Projects, query \in Queries, file_id \in FileFilters,
       top_k \in TopKs, event \in ChatEvents :
        ChatEndpoint(project_id, query, file_id, top_k, event)

SpecChatEndpoint == InitChat /\ [][NextChatEndpoint]_vars

(***************************************************************************)
(* C25: chat with the language model unconfigured                          *)
(***************************************************************************)
\* a chat request was answered while no API key is configured and the
\* pipeline retrieved at least one chunk
UnconfiguredChat ==
    /\ request.op = "chat_endpoint"
    /\ BlankQuery(settings.OPENAI_API_KEY)
    /\ calls.chunks # <<>>

\* the response carries the pipeline's explanation in one of its text fields
CarriesPipelineError ==
    \E k \in {"error", "warning", "details"} :
        k \in DOMAIN response /\ response[k] = NotConfiguredError

\* C25: a chat request served while the language model is unconfigured, with
\* at least one chunk retrieved, is answered with HTTP 200, a null answer,
\* search_results holding the retrieved citations, and the error string the
\* pipeline produced.
C25_UnconfiguredChat ==
    UnconfiguredChat =>
        /\ response.status = 200
        /\ response.answer = <<>>
        /\ response.search_results = format_sources(calls.chunks)
        /\ response.search_results # <<>>
        /\ CarriesPipelineError

(***************************************************************************)
(* C26: every stored embedding belongs to the chunk it is stored with      *)
(***************************************************************************)
\* the vector is the one the Embedding Provider generates from the text;
\* a blank text is never embedded
EmbeddingOf(text, vector) == ValidText(text) /\ vector = Encode(text)

\* C26: every embedding stored during ingestion, in a Chunk Store record or
\* in a Vector Index entry, is the vector generated from the text of that
\* same chunk, also when blank chunks were skipped by the batch embedding; a
\* chunk that was not embedded has no embedding and no Vector Index entry.
C26_EmbeddingsAligned ==
    /\ \A i \in 1..Len(chunkStore) :
           chunkStore[i].embedding # <<>> =>
               EmbeddingOf(chunkStore[i].chunk_text, chunkStore[i].embedding)
    /\ \A p \in Projects :
           LET entries == NamespaceOf(vectorIndex, p) IN
           \A i \in 1..Len(entries) :
               EmbeddingOf(entries[i].document, entries[i].embedding)

(***************************************************************************)
(* C27: the Vector Index is a projection of the Chunk Store                *)
(***************************************************************************)
\* the Chunk Store holds, for the project, a record of the entry's file and
\* ordinal with the entry's text
HasRecord(project_id, entry) ==
    \E r \in RecordsIn(chunkStore, projects, project_id, entry.metadata["file_id"]) :
        /\ chunkStore[r].chunk_order = entry.metadata["chunk_order"]
        /\ chunkStore[r].chunk_text = entry.document

Projection ==
    \A p \in Projects :
        LET entries == NamespaceOf(vectorIndex, p) IN
        \A i \in 1..Len(entries) : HasRecord(p, entries[i])

\* an ingestion that changes the Vector Index has written its records, and
\* one whose Chunk Store write failed leaves the Vector Index alone
RecordsBeforeEntries ==
    ProcessStep =>
        /\ vectorIndex' # vectorIndex =>
               /\ response'.status = 200
               /\ Len(chunkStore') = Len(chunkStore) + Len(request'.chunks)
        /\ (request'.fault = "mongo" /\ request'.file_id # "" /\ request'.chunks # <<>>) =>
               /\ response'.status = 500
               /\ chunkStore' = chunkStore
               /\ vectorIndex' = vectorIndex

\* C27: in every state reached by ingestions, with embedding, Chunk Store or
\* Vector Index failures among them, every Vector Index entry of file f and
\* ordinal k in project p has a Chunk Store record of p and f with ordinal k
\* and the same text; an ingestion writes its Chunk Store records before its
\* Vector Index entries and writes no entry when the Chunk Store write failed.
C27_IndexProjectsChunkStore == []Projection /\ [][RecordsBeforeEntries]_vars

\* a file was ingested, then an ingestion of another file of the project
\* failed in the Chunk Store: the index holds only the first file's entries
C27_Witness ==
    /\ request.op = "process" /\ request.fault = "mongo" /\ response.status = 500
    /\ request.chunks # <<>>
    /\ Len(NamespaceOf(vectorIndex, request.project_id)) = 2
    /\ EntriesOfFile(NamespaceOf(vectorIndex, request.project_id), request.file_id) = {}
    /\ Len(chunkStore) = 2

(***************************************************************************)
(* C28: projects are isolated in the Vector Index                          *)
(***************************************************************************)
NamesDistinct ==
    \A p, q \in Projects : p # q => CollectionName(p) # CollectionName(q)

IndexOps == {"add_chunks", "search_similar", "delete_chunks_by_file", "get_collection_stats"}

\* the entry a search result was taken from is one of entries
ResultFrom(result, entries) ==
    \E i \in 1..Len(entries) :
        /\ entries[i].id = result.chunk_id
        /\ entries[i].document = result.chunk_text
        /\ entries[i].metadata = result.metadata

\* a call on project P leaves the namespaces of the other projects as they
\* were, and what it returns is taken from the namespace of P
IsolatedStep ==
    \A op \in IndexOps : Served(op) =>
        LET P == request'.project_id
            own == NamespaceOf(vectorIndex, P)
            after == NamespaceOf(vectorIndex', P)
        IN  /\ \A q \in Projects \ {P} :
                   NamespaceOf(vectorIndex', q) = NamespaceOf(vectorIndex, q)
            /\ (op = "search_similar" /\ response'.raised = "none") =>
                   \A j \in 1..Len(response'.results) :
                       ResultFrom(response'.results[j], own)
            /\ (op = "get_collection_stats" /\ response'.raised = "none") =>
                   /\ response'.stats.total_chunks = Len(own)
                   /\ response'.stats.file_ids =
                          {own[i].metadata["file_id"] : i \in 1..Len(own)}
                   /\ response'.stats.collection_name = CollectionName(P)
            /\ op = "delete_chunks_by_file" =>
                   /\ \A i \in 1..Len(after) : \E k \in 1..Len(own) : own[k] = after[i]
                   /\ Len(own) - Len(after) = response'.count

\* C28: the namespace name is a function of the project identifier alone and
\* distinct identifiers have distinct namespaces; after any sequence of
\* upserts and deletes across projects a search, stats or delete_by_file on
\* project P returns or affects only entries of the namespace of P, also when
\* another project holds entries of the same file id.
C28_ProjectIsolation == []NamesDistinct /\ [][IsolatedStep]_vars

\* file f1 of project p1 was deleted while project p2 holds entries of its
\* own file f1, which are still there
C28_Witness ==
    /\ request.op = "delete_chunks_by_file"
    /\ request.project_id = "p1" /\ request.file_id = "f1"
    /\ response.count > 0
    /\ EntriesOfFile(NamespaceOf(vectorIndex, "p1"), "f1") = {}
    /\ EntriesOfFile(NamespaceOf(vectorIndex, "p2"), "f1") # {}

(***************************************************************************)
(* C30: the metadata of an entry names the file, project and ordinal of    *)
(* the upsert that wrote it                                                *)
(***************************************************************************)
\* the pairs of the upsert req that become new entries of the namespace
PairsWritten(req, before) ==
    {i \in PairsValid(req) :
        \A k \in 1..Len(before) : before[k].id # ChunkId(req.file_id, i)}

\* C30: every entry written by an upsert has metadata whose file identifier
\* and project identifier are the arguments of the upsert and whose ordinal
\* is the 1-based position of the chunk, whatever the chunk's own metadata
\* holds; so the file filter and delete_by_file select the entries upserted
\* for the file.
C30_MetadataOfUpsert ==
    [][Served("add_chunks") =>
          LET req == request'
              before == NamespaceOf(vectorIndex, req.project_id)
              after == NamespaceOf(vectorIndex', req.project_id)
          IN  \A i \in PairsWritten(req, before) :
                  \E k \in 1..Len(after) :
                      /\ after[k].id = ChunkId(req.file_id, i)
                      /\ after[k].metadata["file_id"] = req.file_id
                      /\ after[k].metadata["project_id"] = req.project_id
                      /\ after[k].metadata["chunk_order"] = i
                      /\ k \in EntriesOfFile(after, req.file_id)]_vars

(***************************************************************************)
(* C29: the outcomes and the stage order of a chat call                    *)
(***************************************************************************)
OutcomeInvalidQuery == response.raised = "ValueError"

OutcomeFatal == response.raised = "RuntimeError"

OutcomeZeroResult ==
    /\ Returned
    /\ Body["answer"] = <<NoInfoAnswer>>
    /\ Body["chunks_retrieved"] = 0
    /\ "error" \notin DOMAIN Body

OutcomeGeneratorUnavailable ==
    /\ Returned
    /\ Body["answer"] = <<>>
    /\ "error" \in DOMAIN Body /\ Body["error"] = NotConfiguredError
    /\ Body["chunks_retrieved"] > 0

OutcomeGenerationFailed ==
    /\ Returned
    /\ Body["answer"] = <<>>
    /\ "error" \in DOMAIN Body /\ Body["error"] # NotConfiguredError
    /\ Body["chunks_retrieved"] > 0

OutcomeSuccess ==
    /\ Returned
    /\ Body["answer"] # <<>> /\ Body["answer"] # <<NoInfoAnswer>>
    /\ "error" \notin DOMAIN Body
    /\ Body["chunks_retrieved"] > 0

Outcomes ==
    << OutcomeInvalidQuery, OutcomeFatal, OutcomeZeroResult,
       OutcomeGeneratorUnavailable, OutcomeGenerationFailed, OutcomeSuccess >>

\* the stages a call went through, in their order: each stage ran at most
\* once and only after the stages before it succeeded
StagesInOrder ==
    /\ calls.embed \in {0, 1} /\ calls.search \in {0, 1} /\ calls.llm \in {0, 1}
    /\ calls.embed = 1 <=> ~BlankQuery(request.query)
    /\ calls.search = 1 <=> (calls.embed = 1 /\ request.event # "embed")
    /\ calls.llm = 1 <=>
           (Retrieved /\ calls.search = 1 /\ Survivors # {} /\ ~GeneratorUnavailable)

\* the outcome the stages lead to
OutcomeOfStages ==
    /\ OutcomeInvalidQuery <=> BlankQuery(request.query)
    /\ OutcomeFatal <=> (~BlankQuery(request.query) /\ request.event \in RetrievalFaults)
    /\ OutcomeZeroResult <=> (Retrieved /\ Survivors = {})
    /\ OutcomeGeneratorUnavailable <=> (Retrieved /\ Survivors # {} /\ GeneratorUnavailable)
    /\ OutcomeGenerationFailed <=>
           (calls.llm = 1 /\ request.event \in GenerationFailures)
    /\ OutcomeSuccess <=> (calls.llm = 1 /\ request.event \notin GenerationFailures)

\* C29: every chat call ends in exactly one of the six outcomes; the stages
\* run in the order validate, embed, search, filter, format, generate: the
\* index is searched at most once and only after the query was embedded, the
\* Answer Generator is invoked at most once and only when a chunk survived
\* and the generator is available, and an answer other than the zero-result
\* message is returned only when that invocation succeeded.
C29_ChatOutcomes ==
    ChatServed =>
        /\ Cardinality({k \in 1..Len(Outcomes) : Outcomes[k]}) = 1
        /\ StagesInOrder
        /\ OutcomeOfStages

\* a call whose generator failed after one search and one invocation
C29_Witness ==
    /\ ChatServed
    /\ OutcomeGenerationFailed
    /\ calls.embed = 1 /\ calls.search = 1 /\ calls.llm = 1
    /\ Cardinality(Survivors) = 1

=============================================================================
